---- MODULE Spec2Model ----
(***************************************************************************)
(* RentFlowCore: the escrow-backed lease and maintenance contract          *)
(* (src/unnamed/part_002) together with the ERC20 ledger it drives         *)
(* (MockUSDC, src/unnamed/part_001).                                       *)
(*                                                                         *)
(* One action per external function.  A call whose require chain fails     *)
(* reverts: the EVM rolls back every write of the transaction, so the      *)
(* step leaves all variables unchanged.  The reason string of the failing  *)
(* require is computed by the <function>Outcome operator, in the order the *)
(* modifiers and requires are evaluated in the source.                      *)
(*                                                                         *)
(* Storage mappings are total: an id that was never allocated reads as the *)
(* zero record (status Active / Pending, owner and tenant address(0)).     *)
(***************************************************************************)
EXTENDS Integers, Sequences, FiniteSets, TLC

(***************************************************************************)
(* Bounds of the model                                                     *)
(***************************************************************************)
MaxProperties == 1
MaxLeases == 1
MaxRequests == 1

(***************************************************************************)
(* Program constants                                                       *)
(***************************************************************************)
Day == 86400
AutoApprovalLimit == 500000000
MaxDurationMonths == 36
MaxRentDueDay == 28
DaysPerMonth == 30

(***************************************************************************)
(* Accounts.  ZERO is address(0); Core is the contract's own address.      *)
(***************************************************************************)
ZERO == "0x0"
Core == "core"
Deployer == "deployer"
Accounts == {"deployer", "landlord", "tenant", "agent", "contractor"}
\* The accounts that send transactions (the contractor only receives)
Callers == {"deployer", "landlord", "tenant", "agent"}
Addresses == Accounts \cup {ZERO}
Holders == Accounts \cup {Core}

PropertyIds == 0..MaxProperties
LeaseIds == 0..MaxLeases
RequestIds == 0..MaxRequests

(***************************************************************************)
(* Inputs the callers choose from                                          *)
(***************************************************************************)
Registrants == {"landlord"}
RentChoices == {0, 2}
DepositChoices == {1, 3}
TenantChoices == {"tenant", "contractor", ZERO}
DurationChoices == {0, 1}
DueDayChoices == {1, 29}
CostChoices == {0, 1}
AmountChoices == {0, 1, AutoApprovalLimit, AutoApprovalLimit + 1}
FundChoices == {0, AutoApprovalLimit}
ContractorChoices == {"contractor", ZERO}
AgentChoices == {"agent", ZERO}
DescriptionLengths == {0, 1}
DeductionChoices == {0, 1, 3, 4}
Genesis == 100 * Day
\* The block timestamps of the scenario: deployment, the next second, and the
\* second at which a one-month lease that started one second after deployment
\* ends (a lease that started at deployment has then been over for a second)
TimePoints == {Genesis, Genesis + 1, Genesis + DaysPerMonth * Day + 1}
StartOffsets == {-1, 0, 1}

VARIABLES
    properties,           \* mapping(uint256 => Property)
    leases,               \* mapping(uint256 => Lease)
    maintenanceRequests,  \* mapping(uint256 => MaintenanceRequest)
    ownerProperties,      \* mapping(address => uint256[])
    tenantLeases,         \* mapping(address => uint256[])
    maintenanceFunds,     \* mapping(uint256 => uint256)
    authorizedAIAgents,   \* mapping(address => bool)
    propertyCounter,
    leaseCounter,
    maintenanceCounter,
    paused,               \* Pausable
    now,                  \* block.timestamp
    balances,             \* USDC balanceOf
    allowances,           \* USDC allowance(holder, Core)
    last,                 \* the last successful call: op, id, transfers, event
    paidCount,            \* per request id: successful payMaintenanceContractor calls
    rentCount,            \* per lease id: successful payRent calls
    rentReceived,         \* per lease id: rent the ledger moved tenant -> owner
    frozen                \* holders to which USDC.transfer fails

vars == <<properties, leases, maintenanceRequests, ownerProperties, tenantLeases,
          maintenanceFunds, authorizedAIAgents, propertyCounter, leaseCounter,
          maintenanceCounter, paused, now, balances, allowances, last,
          paidCount, rentCount, rentReceived, frozen>>

coreVars == <<properties, leases, maintenanceRequests, ownerProperties, tenantLeases,
              maintenanceFunds, authorizedAIAgents, propertyCounter, leaseCounter,
              maintenanceCounter, paused>>

ghostVars == <<paidCount, rentCount, rentReceived>>

(***************************************************************************)
(* Zero values of storage                                                  *)
(***************************************************************************)
ZeroProperty ==
    [owner |-> ZERO, monthlyRent |-> 0, securityDeposit |-> 0, isActive |-> FALSE]

ZeroLease ==
    [propertyId |-> 0, tenant |-> ZERO, startDate |-> 0, endDate |-> 0,
     rentDueDay |-> 0, lastPaymentDate |-> 0, totalPaid |-> 0,
     status |-> "Active", securityDepositHeld |-> 0]

ZeroRequest ==
    [propertyId |-> 0, requestedBy |-> ZERO, descriptionLength |-> 0,
     estimatedCost |-> 0, approvedAmount |-> 0, contractor |-> ZERO,
     status |-> "Pending"]

\* An emitted event: its name, the indexed id, the address it carries (or ZERO),
\* the amount it carries (or 0) and a second number (property id, timestamp; or 0)
Event(name, id, who, value, ref) ==
    [name |-> name, id |-> id, who |-> who, value |-> value, ref |-> ref]

NoEvent == Event("none", 0, ZERO, 0, 0)

NoCall == [op |-> "constructor", id |-> 0, transfers |-> <<>>, event |-> NoEvent]

(***************************************************************************)
(* The ledger fixture: what the accounts hold and have approved to the     *)
(* contract before the scenario starts.                                    *)
(***************************************************************************)
InitialBalance(a) ==
    CASE a = "landlord" -> AutoApprovalLimit + 1
      [] a = "tenant" -> 8
      [] OTHER -> 0

InitialAllowance(a) ==
    CASE a = "landlord" -> AutoApprovalLimit + 1
      [] a = "tenant" -> 8
      [] OTHER -> 0

Init ==
    /\ properties = [p \in PropertyIds |-> ZeroProperty]
    /\ leases = [l \in LeaseIds |-> ZeroLease]
    /\ maintenanceRequests = [r \in RequestIds |-> ZeroRequest]
    /\ ownerProperties = [a \in Accounts |-> <<>>]
    /\ tenantLeases = [a \in Accounts |-> <<>>]
    /\ maintenanceFunds = [p \in PropertyIds |-> 0]
    /\ authorizedAIAgents = [a \in Accounts |-> FALSE]
    /\ propertyCounter = 0
    /\ leaseCounter = 0
    /\ maintenanceCounter = 0
    /\ paused = FALSE
    /\ now = Genesis
    /\ balances = [a \in Holders |-> InitialBalance(a)]
    /\ allowances = [a \in Accounts |-> InitialAllowance(a)]
    /\ last = NoCall
    /\ paidCount = [r \in RequestIds |-> 0]
    /\ rentCount = [l \in LeaseIds |-> 0]
    /\ rentReceived = [l \in LeaseIds |-> 0]
    /\ frozen = {}

(***************************************************************************)
(* ERC20 ledger                                                            *)
(***************************************************************************)
\* transferFrom(from, to, amount) called by the contract: needs balance and allowance
TransferFromOK(from, amount) ==
    /\ from \in Accounts
    /\ balances[from] >= amount
    /\ allowances[from] >= amount

\* transfer(to, amount) called by the contract: pays out of the contract's balance
TransferOK(to, amount) ==
    /\ to \in Accounts
    /\ to \notin frozen
    /\ balances[Core] >= amount

Moved(bal, from, to, amount) ==
    [[bal EXCEPT ![from] = @ - amount] EXCEPT ![to] = @ + amount]

Spent(allow, from, amount) ==
    [allow EXCEPT ![from] = @ - amount]

\* The balances after the transfers <<from, to, amount>> of seq s, in order
RECURSIVE ApplyTransfers(_, _)
ApplyTransfers(bal, s) ==
    IF s = <<>> THEN bal
    ELSE ApplyTransfers(Moved(bal, Head(s)[1], Head(s)[2], Head(s)[3]), Tail(s))

\* Sum of the amounts of the transfers in seq s that go from `from` to `to`
RECURSIVE SumTransfers(_, _, _)
SumTransfers(s, from, to) ==
    IF s = <<>> THEN 0
    ELSE (IF Head(s)[1] = from /\ Head(s)[2] = to THEN Head(s)[3] ELSE 0)
         + SumTransfers(Tail(s), from, to)

\* A reverted transaction: every write is rolled back
Revert == UNCHANGED vars

\* An index array after a push that stores the id twice
pushTwice(list, id) == Append(Append(list, id), id)

\* array.push(id)
push(list, id) == Append(list, id)

(***************************************************************************)
(* Property management                                                     *)
(***************************************************************************)
\* registerProperty without the deposit check
registerPropertyOutcomeNoDepositCheck(caller, monthlyRent, securityDeposit) ==
    IF paused THEN "Pausable: paused"
    ELSE IF ~(monthlyRent > 0) THEN "Rent must be positive"
    ELSE "ok"

registerPropertyOutcome(caller, monthlyRent, securityDeposit) ==
    IF paused THEN "Pausable: paused"
    ELSE IF ~(monthlyRent > 0) THEN "Rent must be positive"
    ELSE IF ~(securityDeposit >= monthlyRent) THEN "Deposit must be >= monthly rent"
    ELSE "ok"

registerProperty(caller, monthlyRent, securityDeposit) ==
    /\ propertyCounter < MaxProperties
    /\ IF registerPropertyOutcome(caller, monthlyRent, securityDeposit) = "ok"
       THEN LET propertyId == propertyCounter IN
            /\ propertyCounter' = propertyCounter + 1
            /\ properties' = [properties EXCEPT ![propertyId] =
                   [owner |-> caller, monthlyRent |-> monthlyRent,
                    securityDeposit |-> securityDeposit, isActive |-> TRUE]]
            /\ ownerProperties' = [ownerProperties EXCEPT ![caller] = push(@, propertyId)]
            /\ last' = [op |-> "registerProperty", id |-> propertyId, transfers |-> <<>>,
                        event |-> Event("PropertyRegistered", propertyId, caller, monthlyRent, 0)]
            /\ UNCHANGED <<leases, maintenanceRequests, tenantLeases, maintenanceFunds,
                           authorizedAIAgents, leaseCounter, maintenanceCounter, paused,
                           now, balances, allowances, ghostVars, frozen>>
       ELSE Revert

\* deactivateProperty without the onlyPropertyOwner modifier
deactivatePropertyOutcomeAnyCaller(caller, propertyId) == "ok"

deactivatePropertyOutcome(caller, propertyId) ==
    IF properties[propertyId].owner # caller THEN "Not property owner"
    ELSE "ok"

\* The property after a deactivation that deletes the record
DeactivatedPropertyDeleted(prop) == ZeroProperty

\* The property after a deactivation
DeactivatedProperty(prop) == [prop EXCEPT !.isActive = FALSE]

deactivateProperty(caller, propertyId) ==
    IF deactivatePropertyOutcome(caller, propertyId) = "ok"
    THEN /\ properties' = [properties EXCEPT ![propertyId] = DeactivatedProperty(@)]
         /\ last' = [op |-> "deactivateProperty", id |-> propertyId, transfers |-> <<>>,
                     event |-> NoEvent]
         /\ UNCHANGED <<leases, maintenanceRequests, ownerProperties, tenantLeases,
                        maintenanceFunds, authorizedAIAgents, propertyCounter, leaseCounter,
                        maintenanceCounter, paused, now, balances, allowances,
                        ghostVars, frozen>>
    ELSE Revert

(***************************************************************************)
(* Lease management                                                        *)
(***************************************************************************)
\* createLease without the duration check
createLeaseOutcomeAnyDuration(caller, propertyId, tenant, startDate, durationMonths, rentDueDay) ==
    IF properties[propertyId].owner # caller THEN "Not property owner"
    ELSE IF ~properties[propertyId].isActive THEN "Property not active"
    ELSE IF tenant = ZERO THEN "Invalid tenant address"
    ELSE IF ~(startDate >= now) THEN "Start date must be in future"
    ELSE IF ~(rentDueDay >= 1 /\ rentDueDay <= MaxRentDueDay)
         THEN "Rent due day must be 1-28"
    ELSE IF ~TransferFromOK(tenant, properties[propertyId].securityDeposit)
         THEN "Security deposit transfer failed"
    ELSE "ok"

createLeaseOutcome(caller, propertyId, tenant, startDate, durationMonths, rentDueDay) ==
    IF properties[propertyId].owner # caller THEN "Not property owner"
    ELSE IF ~properties[propertyId].isActive THEN "Property not active"
    ELSE IF tenant = ZERO THEN "Invalid tenant address"
    ELSE IF ~(startDate >= now) THEN "Start date must be in future"
    ELSE IF ~(durationMonths > 0 /\ durationMonths <= MaxDurationMonths)
         THEN "Duration must be 1-36 months"
    ELSE IF ~(rentDueDay >= 1 /\ rentDueDay <= MaxRentDueDay)
         THEN "Rent due day must be 1-28"
    ELSE IF ~TransferFromOK(tenant, properties[propertyId].securityDeposit)
         THEN "Security deposit transfer failed"
    ELSE "ok"

\* The Lease record createLease stores
NewLeaseHoldsRent(propertyId, tenant, startDate, endDate, rentDueDay) ==
    [propertyId |-> propertyId, tenant |-> tenant, startDate |-> startDate,
     endDate |-> endDate, rentDueDay |-> rentDueDay, lastPaymentDate |-> 0,
     totalPaid |-> 0, status |-> "Active",
     securityDepositHeld |-> properties[propertyId].monthlyRent]

NewLease(propertyId, tenant, startDate, endDate, rentDueDay) ==
    [propertyId |-> propertyId, tenant |-> tenant, startDate |-> startDate,
     endDate |-> endDate, rentDueDay |-> rentDueDay, lastPaymentDate |-> 0,
     totalPaid |-> 0, status |-> "Active",
     securityDepositHeld |-> properties[propertyId].securityDeposit]

\* createLease, had a failed deposit pull made it return early instead of
\* reverting: the id allocated before the pull stays consumed
createLeaseFailedKeepsCounter(outcome) ==
    IF outcome = "Security deposit transfer failed"
    THEN /\ leaseCounter' = leaseCounter + 1
         /\ UNCHANGED <<properties, leases, maintenanceRequests, ownerProperties,
                        tenantLeases, maintenanceFunds, authorizedAIAgents,
                        propertyCounter, maintenanceCounter, paused, now, balances,
                        allowances, last, ghostVars, frozen>>
    ELSE Revert

\* What a failed createLease does: the require reverts the transaction
createLeaseFailed(outcome) == Revert

createLease(caller, propertyId, tenant, startDate, durationMonths, rentDueDay) ==
    IF createLeaseOutcome(caller, propertyId, tenant, startDate, durationMonths,
                          rentDueDay) = "ok"
    THEN LET leaseId == leaseCounter
             prop == properties[propertyId]
             endDate == startDate + (durationMonths * (DaysPerMonth * Day))
         IN
         /\ leaseCounter < MaxLeases
         /\ leaseCounter' = leaseCounter + 1
         /\ balances' = Moved(balances, tenant, Core, prop.securityDeposit)
         /\ allowances' = Spent(allowances, tenant, prop.securityDeposit)
         /\ leases' = [leases EXCEPT ![leaseId] =
                NewLease(propertyId, tenant, startDate, endDate, rentDueDay)]
         /\ tenantLeases' = [tenantLeases EXCEPT ![tenant] = push(@, leaseId)]
         /\ last' = [op |-> "createLease", id |-> leaseId,
                     transfers |-> << <<tenant, Core, prop.securityDeposit>> >>,
                     event |-> Event("LeaseCreated", leaseId, tenant, 0, propertyId)]
         /\ UNCHANGED <<properties, maintenanceRequests, ownerProperties,
                        maintenanceFunds, authorizedAIAgents, propertyCounter,
                        maintenanceCounter, paused, now, ghostVars, frozen>>
    ELSE createLeaseFailed(createLeaseOutcome(caller, propertyId, tenant, startDate,
                                              durationMonths, rentDueDay))

\* payRent open to any caller
payRentOutcomeAnyCaller(caller, leaseId) ==
    IF paused THEN "Pausable: paused"
    ELSE IF leases[leaseId].status # "Active" THEN "Lease not active"
    ELSE IF ~(now >= leases[leaseId].startDate) THEN "Lease hasn't started"
    ELSE IF ~(now <= leases[leaseId].endDate) THEN "Lease has ended"
    ELSE IF ~TransferFromOK(caller, properties[leases[leaseId].propertyId].monthlyRent)
         THEN "Rent payment failed"
    ELSE "ok"

payRentOutcome(caller, leaseId) ==
    IF paused THEN "Pausable: paused"
    ELSE IF leases[leaseId].status # "Active" THEN "Lease not active"
    ELSE IF caller # leases[leaseId].tenant THEN "Only tenant can pay"
    ELSE IF ~(now >= leases[leaseId].startDate) THEN "Lease hasn't started"
    ELSE IF ~(now <= leases[leaseId].endDate) THEN "Lease has ended"
    ELSE IF ~TransferFromOK(caller, properties[leases[leaseId].propertyId].monthlyRent)
         THEN "Rent payment failed"
    ELSE "ok"

\* The lease after a rent payment
PaidLeaseOverwritesTotal(lease, rentAmount) ==
    [lease EXCEPT !.lastPaymentDate = now, !.totalPaid = rentAmount]

\* The lease after a rent payment that is taken out of the deposit
PaidLeaseSpendsDeposit(lease, rentAmount) ==
    [lease EXCEPT !.lastPaymentDate = now, !.totalPaid = @ + rentAmount,
                  !.securityDepositHeld = 0]

\* The lease after a rent payment that extends the term by a month
PaidLeaseExtendsTerm(lease, rentAmount) ==
    [lease EXCEPT !.lastPaymentDate = now, !.totalPaid = @ + rentAmount,
                  !.endDate = @ + DaysPerMonth * Day]

PaidLease(lease, rentAmount) ==
    [lease EXCEPT !.lastPaymentDate = now, !.totalPaid = @ + rentAmount]

\* payRent with the rent custodied by the contract
RentRecipientEscrow(prop) == Core

\* Who the rent is transferred to
RentRecipient(prop) == prop.owner

payRent(caller, leaseId) ==
    IF payRentOutcome(caller, leaseId) = "ok"
    THEN LET prop == properties[leases[leaseId].propertyId]
             rentAmount == prop.monthlyRent
         IN
         /\ balances' = Moved(balances, caller, RentRecipient(prop), rentAmount)
         /\ allowances' = Spent(allowances, caller, rentAmount)
         /\ leases' = [leases EXCEPT ![leaseId] = PaidLease(@, rentAmount)]
         /\ last' = [op |-> "payRent", id |-> leaseId,
                     transfers |-> << <<caller, RentRecipient(prop), rentAmount>> >>,
                     event |-> Event("RentPaid", leaseId, ZERO, rentAmount, now)]
         /\ rentCount' = [rentCount EXCEPT ![leaseId] = @ + 1]
         /\ rentReceived' = [rentReceived EXCEPT ![leaseId] = @ + rentAmount]
         /\ UNCHANGED <<properties, maintenanceRequests, ownerProperties, tenantLeases,
                        maintenanceFunds, authorizedAIAgents, propertyCounter,
                        leaseCounter, maintenanceCounter, paused, now,
                        paidCount, frozen>>
    ELSE Revert

checkRentOverdueOutcome(caller, leaseId) ==
    IF ~authorizedAIAgents[caller] THEN "Not authorized AI agent"
    ELSE IF leases[leaseId].status # "Active" THEN "Lease not active"
    ELSE "ok"

\* The event with the payment threshold compared by >= instead of >
checkRentOverdueEventFromDay35(leaseId) ==
    LET lease == leases[leaseId] IN
    IF lease.lastPaymentDate = 0 /\ now > lease.startDate + 5 * Day
    THEN Event("RentOverdue", leaseId, ZERO, (now - lease.startDate) \div Day, 0)
    ELSE IF lease.lastPaymentDate > 0
    THEN LET daysSincePayment == (now - lease.lastPaymentDate) \div Day IN
         IF daysSincePayment >= 35
         THEN Event("RentOverdue", leaseId, ZERO, daysSincePayment - 30, 0)
         ELSE NoEvent
    ELSE NoEvent

\* The RentOverdue event the call emits, or NoEvent
checkRentOverdueEvent(leaseId) ==
    LET lease == leases[leaseId] IN
    IF lease.lastPaymentDate = 0 /\ now > lease.startDate + 5 * Day
    THEN Event("RentOverdue", leaseId, ZERO, (now - lease.startDate) \div Day, 0)
    ELSE IF lease.lastPaymentDate > 0
    THEN LET daysSincePayment == (now - lease.lastPaymentDate) \div Day IN
         IF daysSincePayment > 35
         THEN Event("RentOverdue", leaseId, ZERO, daysSincePayment - 30, 0)
         ELSE NoEvent
    ELSE NoEvent

\* checkRentOverdue as an enforcement action: an overdue lease is terminated
checkRentOverdueTerminates(caller, leaseId) ==
    IF checkRentOverdueOutcome(caller, leaseId) = "ok"
    THEN /\ last' = [op |-> "checkRentOverdue", id |-> leaseId, transfers |-> <<>>,
                     event |-> checkRentOverdueEvent(leaseId)]
         /\ leases' = IF checkRentOverdueEvent(leaseId) # NoEvent
                      THEN [leases EXCEPT ![leaseId].status = "Completed"]
                      ELSE leases
         /\ UNCHANGED <<properties, maintenanceRequests, ownerProperties, tenantLeases,
                        maintenanceFunds, authorizedAIAgents, propertyCounter,
                        leaseCounter, maintenanceCounter, paused, now, balances,
                        allowances, ghostVars, frozen>>
    ELSE Revert

checkRentOverdue(caller, leaseId) ==
    IF checkRentOverdueOutcome(caller, leaseId) = "ok"
    THEN /\ last' = [op |-> "checkRentOverdue", id |-> leaseId, transfers |-> <<>>,
                     event |-> checkRentOverdueEvent(leaseId)]
         /\ UNCHANGED <<coreVars, now, balances, allowances, ghostVars, frozen>>
    ELSE Revert

(***************************************************************************)
(* Security deposit                                                        *)
(***************************************************************************)
\* The whole deposit, whatever the deduction
ReturnAmountIgnoresDeduction(lease, deductionAmount) ==
    lease.securityDepositHeld

\* What the tenant gets back
ReturnAmount(lease, deductionAmount) ==
    lease.securityDepositHeld - deductionAmount

\* The lease after settlement
SettledLeaseKeepsStatus(lease) ==
    [lease EXCEPT !.securityDepositHeld = 0]

SettledLease(lease) ==
    [lease EXCEPT !.securityDepositHeld = 0, !.status = "Completed"]

\* The ledger transfers of a settlement, in order
DepositPayoutsTenantOnly(lease, owner, deductionAmount) ==
    IF ReturnAmount(lease, deductionAmount) > 0
    THEN << <<Core, lease.tenant, ReturnAmount(lease, deductionAmount)>> >>
    ELSE <<>>

DepositPayouts(lease, owner, deductionAmount) ==
    (IF ReturnAmount(lease, deductionAmount) > 0
     THEN << <<Core, lease.tenant, ReturnAmount(lease, deductionAmount)>> >>
     ELSE <<>>)
    \o (IF deductionAmount > 0 THEN << <<Core, owner, deductionAmount>> >> ELSE <<>>)

\* returnSecurityDeposit without the end-of-term check
returnSecurityDepositOutcomeNoTermCheck(caller, leaseId, deductionAmount) ==
    LET lease == leases[leaseId]
        owner == properties[lease.propertyId].owner
        returnAmount == ReturnAmount(lease, deductionAmount)
    IN
    IF ~(caller = owner \/ authorizedAIAgents[caller]) THEN "Not authorized"
    ELSE IF ~(deductionAmount <= lease.securityDepositHeld) THEN "Deduction exceeds deposit"
    ELSE IF returnAmount > 0 /\ ~TransferOK(lease.tenant, returnAmount)
         THEN "Deposit return failed"
    ELSE IF deductionAmount > 0
            /\ ~(/\ owner \in Accounts
                 /\ owner \notin frozen
                 /\ balances[Core] - returnAmount >= deductionAmount)
         THEN "Deduction transfer failed"
    ELSE "ok"

\* returnSecurityDeposit under whenNotPaused
returnSecurityDepositOutcomeWhenNotPaused(caller, leaseId, deductionAmount) ==
    IF paused THEN "Pausable: paused"
    ELSE returnSecurityDepositOutcomeNoTermCheck(caller, leaseId, deductionAmount)

returnSecurityDepositOutcome(caller, leaseId, deductionAmount) ==
    LET lease == leases[leaseId]
        owner == properties[lease.propertyId].owner
        returnAmount == ReturnAmount(lease, deductionAmount)
    IN
    IF ~(caller = owner \/ authorizedAIAgents[caller]) THEN "Not authorized"
    ELSE IF ~(lease.status = "Completed" \/ now > lease.endDate) THEN "Lease not completed"
    ELSE IF ~(deductionAmount <= lease.securityDepositHeld) THEN "Deduction exceeds deposit"
    ELSE IF returnAmount > 0 /\ ~TransferOK(lease.tenant, returnAmount)
         THEN "Deposit return failed"
    ELSE IF deductionAmount > 0
            /\ ~(/\ owner \in Accounts
                 /\ owner \notin frozen
                 /\ balances[Core] - returnAmount >= deductionAmount)
         THEN "Deduction transfer failed"
    ELSE "ok"

\* What a failed returnSecurityDeposit does: the require reverts the transaction,
\* the writes and the transfer made before it included
returnSecurityDepositFailedKeepsWrites(outcome, leaseId, deductionAmount) ==
    LET lease == leases[leaseId] IN
    IF outcome \in {"Deposit return failed", "Deduction transfer failed"}
    THEN /\ leases' = [leases EXCEPT ![leaseId] = SettledLease(@)]
         /\ balances' = IF outcome = "Deduction transfer failed"
                            /\ ReturnAmount(lease, deductionAmount) > 0
                        THEN Moved(balances, Core, lease.tenant,
                                   ReturnAmount(lease, deductionAmount))
                        ELSE balances
         /\ UNCHANGED <<properties, maintenanceRequests, ownerProperties, tenantLeases,
                        maintenanceFunds, authorizedAIAgents, propertyCounter,
                        leaseCounter, maintenanceCounter, paused, now, allowances,
                        last, ghostVars, frozen>>
    ELSE Revert

returnSecurityDepositFailed(outcome, leaseId, deductionAmount) == Revert

returnSecurityDeposit(caller, leaseId, deductionAmount) ==
    IF returnSecurityDepositOutcome(caller, leaseId, deductionAmount) = "ok"
    THEN LET lease == leases[leaseId]
             owner == properties[lease.propertyId].owner
             returnAmount == ReturnAmount(lease, deductionAmount)
             payouts == DepositPayouts(lease, owner, deductionAmount)
         IN
         /\ leases' = [leases EXCEPT ![leaseId] = SettledLease(@)]
         /\ balances' = ApplyTransfers(balances, payouts)
         /\ last' = [op |-> "returnSecurityDeposit", id |-> leaseId,
                     transfers |-> payouts,
                     event |-> Event("SecurityDepositReturned", leaseId, lease.tenant,
                                     returnAmount, 0)]
         /\ UNCHANGED <<properties, maintenanceRequests, ownerProperties, tenantLeases,
                        maintenanceFunds, authorizedAIAgents, propertyCounter,
                        leaseCounter, maintenanceCounter, paused, now,
                        allowances, ghostVars, frozen>>
    ELSE returnSecurityDepositFailed(
             returnSecurityDepositOutcome(caller, leaseId, deductionAmount),
             leaseId, deductionAmount)

(***************************************************************************)
(* Maintenance management                                                  *)
(***************************************************************************)
RECURSIVE ScanLeases(_, _, _)
ScanLeases(userLeases, i, propertyId) ==
    IF i > Len(userLeases) THEN FALSE
    ELSE IF leases[userLeases[i]].propertyId = propertyId
            /\ leases[userLeases[i]].status = "Active"
         THEN TRUE
    ELSE ScanLeases(userLeases, i + 1, propertyId)

\* _isTenantOfProperty without the status test: any lease on the property counts
_isTenantOfPropertyAnyStatus(user, propertyId) ==
    \E i \in 1..Len(tenantLeases[user]) :
        leases[tenantLeases[user][i]].propertyId = propertyId

\* _isTenantOfProperty by the clock: a lease on the property that is in its term
_isTenantOfPropertyInTerm(user, propertyId) ==
    \E i \in 1..Len(tenantLeases[user]) :
        LET lease == leases[tenantLeases[user][i]] IN
        /\ lease.propertyId = propertyId
        /\ lease.status = "Active"
        /\ now >= lease.startDate
        /\ now <= lease.endDate

_isTenantOfProperty(user, propertyId) ==
    ScanLeases(tenantLeases[user], 1, propertyId)

\* requestMaintenance without the validProperty modifier
requestMaintenanceOutcomeAnyProperty(caller, propertyId, descriptionLength, estimatedCost) ==
    IF ~(properties[propertyId].owner = caller
         \/ _isTenantOfProperty(caller, propertyId))
    THEN "Not authorized for this property"
    ELSE IF ~(descriptionLength > 0) THEN "Description required"
    ELSE IF ~(estimatedCost > 0) THEN "Estimated cost must be positive"
    ELSE "ok"

requestMaintenanceOutcome(caller, propertyId, descriptionLength, estimatedCost) ==
    IF ~properties[propertyId].isActive THEN "Property not active"
    ELSE IF ~(properties[propertyId].owner = caller
              \/ _isTenantOfProperty(caller, propertyId))
         THEN "Not authorized for this property"
    ELSE IF ~(descriptionLength > 0) THEN "Description required"
    ELSE IF ~(estimatedCost > 0) THEN "Estimated cost must be positive"
    ELSE "ok"

requestMaintenance(caller, propertyId, descriptionLength, estimatedCost) ==
    /\ maintenanceCounter < MaxRequests
    /\ IF requestMaintenanceOutcome(caller, propertyId, descriptionLength,
                                    estimatedCost) = "ok"
       THEN LET requestId == maintenanceCounter IN
            /\ maintenanceCounter' = maintenanceCounter + 1
            /\ maintenanceRequests' = [maintenanceRequests EXCEPT ![requestId] =
                   [propertyId |-> propertyId, requestedBy |-> caller,
                    descriptionLength |-> descriptionLength,
                    estimatedCost |-> estimatedCost, approvedAmount |-> 0,
                    contractor |-> ZERO, status |-> "Pending"]]
            /\ last' = [op |-> "requestMaintenance", id |-> requestId,
                        transfers |-> <<>>,
                        event |-> Event("MaintenanceRequested", requestId, ZERO,
                                        estimatedCost, propertyId)]
            /\ UNCHANGED <<properties, leases, ownerProperties, tenantLeases,
                           maintenanceFunds, authorizedAIAgents, propertyCounter,
                           leaseCounter, paused, now, balances, allowances,
                           ghostVars, frozen>>
       ELSE Revert

\* approveMaintenance with the cap compared by < instead of <=
approveMaintenanceOutcomeStrictCap(caller, requestId, approvedAmount, contractor) ==
    IF ~authorizedAIAgents[caller] THEN "Not authorized AI agent"
    ELSE IF maintenanceRequests[requestId].status # "Pending" THEN "Request not pending"
    ELSE IF ~(approvedAmount > 0) THEN "Approved amount must be positive"
    ELSE IF contractor = ZERO THEN "Invalid contractor address"
    ELSE IF ~(approvedAmount < AutoApprovalLimit) THEN "Exceeds AI approval limit"
    ELSE "ok"

\* approveMaintenance without the onlyAIAgent modifier
approveMaintenanceOutcomeNoAgentCheck(caller, requestId, approvedAmount, contractor) ==
    IF maintenanceRequests[requestId].status # "Pending" THEN "Request not pending"
    ELSE IF ~(approvedAmount > 0) THEN "Approved amount must be positive"
    ELSE IF contractor = ZERO THEN "Invalid contractor address"
    ELSE IF ~(approvedAmount <= AutoApprovalLimit) THEN "Exceeds AI approval limit"
    ELSE "ok"

\* approveMaintenance without the positive-amount check
approveMaintenanceOutcomeAnyAmount(caller, requestId, approvedAmount, contractor) ==
    IF ~authorizedAIAgents[caller] THEN "Not authorized AI agent"
    ELSE IF maintenanceRequests[requestId].status # "Pending" THEN "Request not pending"
    ELSE IF contractor = ZERO THEN "Invalid contractor address"
    ELSE IF ~(approvedAmount <= AutoApprovalLimit) THEN "Exceeds AI approval limit"
    ELSE "ok"

approveMaintenanceOutcome(caller, requestId, approvedAmount, contractor) ==
    IF ~authorizedAIAgents[caller] THEN "Not authorized AI agent"
    ELSE IF maintenanceRequests[requestId].status # "Pending" THEN "Request not pending"
    ELSE IF ~(approvedAmount > 0) THEN "Approved amount must be positive"
    ELSE IF contractor = ZERO THEN "Invalid contractor address"
    ELSE IF ~(approvedAmount <= AutoApprovalLimit) THEN "Exceeds AI approval limit"
    ELSE "ok"

\* The request after an approval that leaves it Pending
ApprovedRequestStaysPending(request, approvedAmount, contractor) ==
    [request EXCEPT !.approvedAmount = approvedAmount, !.contractor = contractor]

\* The request after an approval
ApprovedRequest(request, approvedAmount, contractor) ==
    [request EXCEPT !.approvedAmount = approvedAmount, !.contractor = contractor,
                    !.status = "Approved"]

approveMaintenance(caller, requestId, approvedAmount, contractor) ==
    IF approveMaintenanceOutcome(caller, requestId, approvedAmount, contractor) = "ok"
    THEN /\ maintenanceRequests' = [maintenanceRequests EXCEPT
                ![requestId] = ApprovedRequest(@, approvedAmount, contractor)]
         /\ last' = [op |-> "approveMaintenance", id |-> requestId, transfers |-> <<>>,
                     event |-> Event("MaintenanceApproved", requestId, contractor,
                                     approvedAmount, 0)]
         /\ UNCHANGED <<properties, leases, ownerProperties, tenantLeases,
                        maintenanceFunds, authorizedAIAgents, propertyCounter,
                        leaseCounter, maintenanceCounter, paused, now, balances,
                        allowances, ghostVars, frozen>>
    ELSE Revert

fundMaintenanceOutcome(caller, propertyId, amount) ==
    IF properties[propertyId].owner # caller THEN "Not property owner"
    ELSE IF ~(amount > 0) THEN "Amount must be positive"
    ELSE IF ~TransferFromOK(caller, amount) THEN "Funding transfer failed"
    ELSE "ok"

\* The escrow after a funding credited to every property
FundedEscrowEveryProperty(funds, propertyId, amount) ==
    [p \in DOMAIN funds |-> funds[p] + amount]

\* The escrow after a funding
FundedEscrow(funds, propertyId, amount) ==
    [funds EXCEPT ![propertyId] = @ + amount]

fundMaintenance(caller, propertyId, amount) ==
    IF fundMaintenanceOutcome(caller, propertyId, amount) = "ok"
    THEN /\ balances' = Moved(balances, caller, Core, amount)
         /\ allowances' = Spent(allowances, caller, amount)
         /\ maintenanceFunds' = FundedEscrow(maintenanceFunds, propertyId, amount)
         /\ last' = [op |-> "fundMaintenance", id |-> propertyId,
                     transfers |-> << <<caller, Core, amount>> >>,
                     event |-> Event("MaintenanceFundAdded", propertyId, ZERO, amount, 0)]
         /\ UNCHANGED <<properties, leases, maintenanceRequests, ownerProperties,
                        tenantLeases, authorizedAIAgents, propertyCounter, leaseCounter,
                        maintenanceCounter, paused, now, ghostVars, frozen>>
    ELSE Revert

\* payMaintenanceContractor without its escrow balance check
payMaintenanceContractorOutcomeNoFundsCheck(caller, requestId) ==
    LET request == maintenanceRequests[requestId]
        propertyId == request.propertyId
    IN
    IF request.status # "Approved" THEN "Not approved"
    ELSE IF ~(caller = properties[propertyId].owner \/ authorizedAIAgents[caller])
         THEN "Not authorized"
    ELSE IF ~TransferOK(request.contractor, request.approvedAmount)
         THEN "Contractor payment failed"
    ELSE "ok"

\* payMaintenanceContractor open to any caller
payMaintenanceContractorOutcomeAnyCaller(caller, requestId) ==
    LET request == maintenanceRequests[requestId] IN
    IF request.status # "Approved" THEN "Not approved"
    ELSE IF ~(maintenanceFunds[request.propertyId] >= request.approvedAmount)
         THEN "Insufficient maintenance funds"
    ELSE IF ~TransferOK(request.contractor, request.approvedAmount)
         THEN "Contractor payment failed"
    ELSE "ok"

payMaintenanceContractorOutcome(caller, requestId) ==
    LET request == maintenanceRequests[requestId]
        propertyId == request.propertyId
    IN
    IF request.status # "Approved" THEN "Not approved"
    ELSE IF ~(caller = properties[propertyId].owner \/ authorizedAIAgents[caller])
         THEN "Not authorized"
    ELSE IF ~(maintenanceFunds[propertyId] >= request.approvedAmount)
         THEN "Insufficient maintenance funds"
    ELSE IF ~TransferOK(request.contractor, request.approvedAmount)
         THEN "Contractor payment failed"
    ELSE "ok"

\* The escrow after a payout that is not charged to it
DebitedEscrowUntouched(funds, propertyId, amount) == funds

\* The escrow after a payout
DebitedEscrow(funds, propertyId, amount) ==
    [funds EXCEPT ![propertyId] = @ - amount]

\* The request after a payout that sends it back to Pending
PaidRequestReopened(request) ==
    [request EXCEPT !.status = "Pending"]

\* The request after a payout
PaidRequest(request) ==
    [request EXCEPT !.status = "Completed"]

payMaintenanceContractor(caller, requestId) ==
    IF payMaintenanceContractorOutcome(caller, requestId) = "ok"
    THEN LET request == maintenanceRequests[requestId]
             propertyId == request.propertyId
             amount == request.approvedAmount
         IN
         /\ maintenanceFunds' = DebitedEscrow(maintenanceFunds, propertyId, amount)
         /\ maintenanceRequests' = [maintenanceRequests EXCEPT
                ![requestId] = PaidRequest(@)]
         /\ balances' = Moved(balances, Core, request.contractor, amount)
         /\ last' = [op |-> "payMaintenanceContractor", id |-> requestId,
                     transfers |-> << <<Core, request.contractor, amount>> >>,
                     event |-> Event("MaintenancePaid", requestId, request.contractor,
                                     amount, 0)]
         /\ paidCount' = [paidCount EXCEPT ![requestId] = @ + 1]
         /\ UNCHANGED <<properties, leases, ownerProperties, tenantLeases,
                        authorizedAIAgents, propertyCounter, leaseCounter,
                        maintenanceCounter, paused, now, allowances, rentCount,
                        rentReceived, frozen>>
    ELSE Revert

(***************************************************************************)
(* AI agent management and emergency functions                             *)
(***************************************************************************)
setAIAgentOutcome(caller, agent, authorized) ==
    IF caller # Deployer THEN "Ownable: caller is not the owner"
    ELSE IF agent = ZERO THEN "Invalid agent address"
    ELSE "ok"

setAIAgent(caller, agent, authorized) ==
    IF setAIAgentOutcome(caller, agent, authorized) = "ok"
    THEN /\ authorizedAIAgents' = [authorizedAIAgents EXCEPT ![agent] = authorized]
         /\ last' = [op |-> "setAIAgent", id |-> 0, transfers |-> <<>>,
                     event |-> Event("AIAgentAuthorized", 0, agent,
                                     IF authorized THEN 1 ELSE 0, 0)]
         /\ UNCHANGED <<properties, leases, maintenanceRequests, ownerProperties,
                        tenantLeases, maintenanceFunds, propertyCounter, leaseCounter,
                        maintenanceCounter, paused, now, balances, allowances,
                        ghostVars, frozen>>
    ELSE Revert

\* pause without the onlyOwner modifier
pauseOutcomeAnyCaller(caller) ==
    IF paused THEN "Pausable: paused"
    ELSE "ok"

pauseOutcome(caller) ==
    IF caller # Deployer THEN "Ownable: caller is not the owner"
    ELSE IF paused THEN "Pausable: paused"
    ELSE "ok"

pause(caller) ==
    IF pauseOutcome(caller) = "ok"
    THEN /\ paused' = TRUE
         /\ last' = [op |-> "pause", id |-> 0, transfers |-> <<>>,
                     event |-> Event("Paused", 0, caller, 0, 0)]
         /\ UNCHANGED <<properties, leases, maintenanceRequests, ownerProperties,
                        tenantLeases, maintenanceFunds, authorizedAIAgents,
                        propertyCounter, leaseCounter, maintenanceCounter, now,
                        balances, allowances, ghostVars, frozen>>
    ELSE Revert

unpauseOutcome(caller) ==
    IF caller # Deployer THEN "Ownable: caller is not the owner"
    ELSE IF ~paused THEN "Pausable: not paused"
    ELSE "ok"

unpause(caller) ==
    IF unpauseOutcome(caller) = "ok"
    THEN /\ paused' = FALSE
         /\ last' = [op |-> "unpause", id |-> 0, transfers |-> <<>>,
                     event |-> Event("Unpaused", 0, caller, 0, 0)]
         /\ UNCHANGED <<properties, leases, maintenanceRequests, ownerProperties,
                        tenantLeases, maintenanceFunds, authorizedAIAgents,
                        propertyCounter, leaseCounter, maintenanceCounter, now,
                        balances, allowances, ghostVars, frozen>>
    ELSE Revert

(***************************************************************************)
(* Time: a later block                                                     *)
(***************************************************************************)
Tick(t) ==
    /\ t > now
    /\ now' = t
    /\ UNCHANGED <<coreVars, balances, allowances, last, ghostVars, frozen>>

(***************************************************************************)
(* The ledger: USDC is whatever IERC20 the constructor was given, and its  *)
(* transfer may fail for a holder (a blocked or paused account)            *)
(***************************************************************************)
FreezeChoices == {{}, {"tenant"}, {"landlord", "contractor"}}

Freeze(holders) ==
    /\ frozen # holders
    /\ frozen' = holders
    /\ UNCHANGED <<coreVars, now, balances, allowances, last, ghostVars>>

(***************************************************************************)
(* Specification                                                           *)
(***************************************************************************)
RegisterStep ==
    \E c \in Registrants, r \in RentChoices, d \in DepositChoices :
       registerProperty(c, r, d)

DeactivateStep ==
    \E c \in Callers, p \in PropertyIds : deactivateProperty(c, p)

\* createLease arguments: the valid ones, and those with exactly one invalid
\* argument beside a funded tenant and a start at the current block
LeaseArgs ==
    {a \in [tenant : TenantChoices, offset : StartOffsets, months : DurationChoices,
            due : DueDayChoices] :
        LET bad == {f \in {"tenant", "offset", "months", "due"} :
                       \/ f = "tenant" /\ a.tenant = ZERO
                       \/ f = "offset" /\ a.offset < 0
                       \/ f = "months" /\ ~(a.months \in 1..MaxDurationMonths)
                       \/ f = "due" /\ ~(a.due \in 1..MaxRentDueDay)}
        IN \/ bad = {}
           \/ /\ Cardinality(bad) = 1
              /\ a.tenant \in {"tenant", ZERO}
              /\ a.offset <= 0}

LeaseStep ==
    \/ \E c \in Callers, p \in PropertyIds, a \in LeaseArgs :
          createLease(c, p, a.tenant, now + a.offset, a.months, a.due)
    \/ \E c \in Callers, l \in LeaseIds : payRent(c, l)
    \/ \E c \in Callers, l \in LeaseIds, d \in DeductionChoices :
          returnSecurityDeposit(c, l, d)

OverdueStep ==
    \E c \in Callers, l \in LeaseIds : checkRentOverdue(c, l)

\* approveMaintenance arguments: a zero contractor only with a valid amount
ApprovalArgs ==
    {a \in [amount : AmountChoices, contractor : ContractorChoices] :
        a.contractor = ZERO => a.amount = 1}

MaintenanceStep ==
    \/ \E c \in Callers, p \in PropertyIds, n \in DescriptionLengths, e \in CostChoices :
          requestMaintenance(c, p, n, e)
    \/ \E c \in Callers, r \in RequestIds, a \in ApprovalArgs :
          approveMaintenance(c, r, a.amount, a.contractor)
    \/ \E c \in Callers, p \in PropertyIds, a \in FundChoices : fundMaintenance(c, p, a)
    \/ \E c \in Callers, r \in RequestIds : payMaintenanceContractor(c, r)

AgentStep ==
    \E c \in Callers, a \in AgentChoices, b \in BOOLEAN : setAIAgent(c, a, b)

PauseStep ==
    \/ \E c \in Callers : pause(c)
    \/ \E c \in Callers : unpause(c)

TimeStep ==
    \E t \in TimePoints : Tick(t)

\* The whole contract
Next ==
    \/ RegisterStep
    \/ DeactivateStep
    \/ LeaseStep
    \/ OverdueStep
    \/ MaintenanceStep
    \/ AgentStep
    \/ PauseStep
    \/ TimeStep

Spec == Init /\ [][Next]_vars

\* The maintenance workflow: registration, requests, approval, escrow funding, payout
NextMaintenance ==
    \/ RegisterStep
    \/ MaintenanceStep
    \/ AgentStep

SpecMaintenance == Init /\ [][NextMaintenance]_vars

\* The lease lifecycle: registration, leases, rent, deposit settlement, over time
NextLease ==
    \/ RegisterStep
    \/ LeaseStep
    \/ AgentStep
    \/ TimeStep

SpecLease == Init /\ [][NextLease]_vars

\* The lease id has been allocated by createLease
LeaseCreated(l) == l < leaseCounter

\* Property owner's calls with well-formed arguments, by every account
PropertyStep ==
    \/ \E c \in Callers, p \in PropertyIds :
          createLease(c, p, "tenant", now, 1, 1)
    \/ \E c \in Callers, p \in PropertyIds :
          fundMaintenance(c, p, AutoApprovalLimit)

\* Administration: registration, deactivation, leases and funding on the
\* registered properties, agents and the pause switch
NextAdmin ==
    \/ RegisterStep
    \/ DeactivateStep
    \/ PropertyStep
    \/ AgentStep
    \/ PauseStep

SpecAdmin == Init /\ [][NextAdmin]_vars

\* A tenancy from creation to settlement, and the maintenance requests made
\* meanwhile
TenancyStep ==
    \/ \E c \in Callers, p \in PropertyIds :
          createLease(c, p, "tenant", now, 1, 1)
    \/ \E c \in Callers, l \in LeaseIds : returnSecurityDeposit(c, l, 0)
    \/ \E c \in Callers, p \in PropertyIds, n \in DescriptionLengths, e \in CostChoices :
          requestMaintenance(c, p, n, e)

NextTenancy ==
    \/ RegisterStep
    \/ DeactivateStep
    \/ TenancyStep
    \/ TimeStep

SpecTenancy == Init /\ [][NextTenancy]_vars

\* The agent's functions, called by every account on every request and lease
AgentDutyStep ==
    \/ \E c \in Callers, p \in PropertyIds :
          createLease(c, p, "tenant", now, 1, 1)
    \/ \E c \in Callers, p \in PropertyIds : requestMaintenance(c, p, 1, 1)
    \/ \E c \in Callers, r \in RequestIds :
          approveMaintenance(c, r, 1, "contractor")
    \/ \E c \in Callers, l \in LeaseIds : checkRentOverdue(c, l)

NextAgent ==
    \/ RegisterStep
    \/ AgentDutyStep
    \/ AgentStep

SpecAgent == Init /\ [][NextAgent]_vars

\* The two payouts from escrow and the calls that lead to them, on the leases
\* and requests that have been created
PayoutStep ==
    \/ \E c \in Callers, p \in PropertyIds :
          createLease(c, p, "tenant", now, 1, 1)
    \/ \E c \in Callers, l \in LeaseIds :
          LeaseCreated(l) /\ returnSecurityDeposit(c, l, 1)
    \/ \E c \in Callers, p \in PropertyIds : requestMaintenance(c, p, 1, 1)
    \/ \E c \in Callers, r \in RequestIds :
          r < maintenanceCounter /\ approveMaintenance(c, r, 1, "contractor")
    \/ \E c \in Callers, p \in PropertyIds :
          fundMaintenance(c, p, AutoApprovalLimit)
    \/ \E c \in Callers, r \in RequestIds :
          r < maintenanceCounter /\ payMaintenanceContractor(c, r)
    \/ \E c \in Callers : setAIAgent(c, "agent", TRUE)
    \/ Tick(Genesis + DaysPerMonth * Day + 1)

NextPayout ==
    \/ RegisterStep
    \/ PayoutStep

SpecPayout == Init /\ [][NextPayout]_vars

(***************************************************************************)
(* Properties                                                              *)
(*                                                                         *)
(* A property of the form "a call that ... changes nothing" is written     *)
(* [][UNCHANGED v \/ \A args : ~(... /\ call(args))]_vars: no step that     *)
(* changes v is such a call.  A property of every successful call of one   *)
(* function is guarded by the op that the step records in last, which the  *)
(* function's action sets on success.                                      *)
(***************************************************************************)
\* The caller may trigger the payout of request r: owner of its property, or agent
PayoutAuthorized(c, r) ==
    \/ c = properties[maintenanceRequests[r].propertyId].owner
    \/ authorizedAIAgents[c]

\* Request r is Approved for more than its property's escrow holds
Underfunded(r) ==
    /\ maintenanceRequests[r].status = "Approved"
    /\ maintenanceRequests[r].approvedAmount >
           maintenanceFunds[maintenanceRequests[r].propertyId]

\* C1 as stated: every escrow balance is >= 0, and a payout call on an Approved
\* request whose approvedAmount exceeds the escrow balance fails with
\* "Insufficient maintenance funds", whoever calls.
C1_AnyCallerInsufficientFunds ==
    /\ \A p \in PropertyIds : maintenanceFunds[p] >= 0
    /\ \A c \in Callers, r \in RequestIds :
           Underfunded(r) =>
               payMaintenanceContractorOutcome(c, r) = "Insufficient maintenance funds"

\* C1 amended: every escrow balance is >= 0; a payout call on an Approved request
\* whose approvedAmount exceeds the escrow balance fails with "Insufficient
\* maintenance funds" when the caller is the property's owner or an authorized
\* agent and with "Not authorized" otherwise; no such call changes the request
\* or any escrow balance.
C1_UnderfundedPayoutFails ==
    /\ [](\A p \in PropertyIds : maintenanceFunds[p] >= 0)
    /\ [](\A c \in Callers, r \in RequestIds :
             Underfunded(r) =>
                 payMaintenanceContractorOutcome(c, r) =
                     IF PayoutAuthorized(c, r) THEN "Insufficient maintenance funds"
                     ELSE "Not authorized")
    /\ [][\/ UNCHANGED <<maintenanceRequests, maintenanceFunds, balances>>
          \/ \A c \in Callers, r \in RequestIds :
                 ~(Underfunded(r) /\ payMaintenanceContractor(c, r))]_vars

\* C1 witness: after a payout has drained the escrow, an authorized caller's payout
\* of another Approved request is refused for insufficient funds
C1_Witness ==
    /\ last.op = "payMaintenanceContractor"
    /\ \E c \in Callers, r \in RequestIds :
           /\ Underfunded(r)
           /\ PayoutAuthorized(c, r)
           /\ maintenanceFunds[maintenanceRequests[r].propertyId] > 0
           /\ payMaintenanceContractorOutcome(c, r) = "Insufficient maintenance funds"

\* C2: a maintenance request is paid at most once: payMaintenanceContractor
\* succeeds at most one time per requestId
C2_PaidAtMostOnce ==
    \A r \in RequestIds : paidCount[r] <= 1

\* C3 as stated: no request's approvedAmount exceeds the cap, and an attempt above
\* the cap on a created, Pending request fails with "Exceeds AI approval limit", whoever
\* calls and whatever contractor is named; an attempt at the cap is not rejected
\* by the cap.
C3_AnyAttemptLimitExceeded ==
    /\ \A r \in RequestIds : maintenanceRequests[r].approvedAmount <= AutoApprovalLimit
    /\ \A c \in Callers, r \in RequestIds, k \in ContractorChoices :
           (r < maintenanceCounter /\ maintenanceRequests[r].status = "Pending") =>
               /\ approveMaintenanceOutcome(c, r, AutoApprovalLimit + 1, k) =
                      "Exceeds AI approval limit"
               /\ approveMaintenanceOutcome(c, r, AutoApprovalLimit, k) #
                      "Exceeds AI approval limit"

\* C3 amended: no request's approvedAmount ever exceeds the cap; approveMaintenance
\* above the cap never succeeds, for any caller, request or contractor, and changes
\* no request; called by an authorized agent with a non-zero contractor on a
\* Pending request it fails with "Exceeds AI approval limit" and the request stays
\* Pending with approvedAmount 0 and no contractor, while the same call with
\* exactly the cap succeeds.
C3_ApprovalCap ==
    /\ [](\A r \in RequestIds :
             maintenanceRequests[r].approvedAmount <= AutoApprovalLimit)
    /\ [](\A c \in Callers, r \in RequestIds, k \in ContractorChoices :
             /\ approveMaintenanceOutcome(c, r, AutoApprovalLimit + 1, k) # "ok"
             /\ (/\ authorizedAIAgents[c]
                 /\ k # ZERO
                 /\ maintenanceRequests[r].status = "Pending") =>
                    /\ approveMaintenanceOutcome(c, r, AutoApprovalLimit + 1, k) =
                           "Exceeds AI approval limit"
                    /\ approveMaintenanceOutcome(c, r, AutoApprovalLimit, k) = "ok"
                    /\ maintenanceRequests[r].approvedAmount = 0
                    /\ maintenanceRequests[r].contractor = ZERO)
    /\ [][\/ UNCHANGED maintenanceRequests
          \/ \A c \in Callers, r \in RequestIds, k \in ContractorChoices :
                 ~approveMaintenance(c, r, AutoApprovalLimit + 1, k)]_vars

\* C3 witness: a request created by requestMaintenance is Pending while an agent is
\* authorized (the attempt above the cap is refused), and another request has been
\* approved at exactly the cap
C3_Witness ==
    /\ last.op = "approveMaintenance"
    /\ \E r \in RequestIds :
           /\ maintenanceRequests[r].status = "Approved"
           /\ maintenanceRequests[r].approvedAmount = AutoApprovalLimit
    /\ \E c \in Callers, r \in RequestIds :
           /\ r < maintenanceCounter
           /\ maintenanceRequests[r].status = "Pending"
           /\ approveMaintenanceOutcome(c, r, AutoApprovalLimit + 1, "contractor") =
                  "Exceeds AI approval limit"

\* The owner of the property lease l is on
LeaseOwner(l) == properties[leases[l].propertyId].owner

\* C4: for every successful returnSecurityDeposit(l, d), the tenant is paid
\* held - d and the property owner d out of the contract's balance, the two sum
\* to the securityDepositHeld before the call, and afterwards securityDepositHeld
\* is 0 and the status Completed.
C4_DepositSplit ==
    [][(vars' # vars /\ last'.op = "returnSecurityDeposit") =>
       \A c \in Callers, l \in LeaseIds, d \in DeductionChoices :
          (/\ returnSecurityDepositOutcome(c, l, d) = "ok"
           /\ returnSecurityDeposit(c, l, d)) =>
              LET held == leases[l].securityDepositHeld
                  paidTenant == SumTransfers(last'.transfers, Core, leases[l].tenant)
                  paidOwner == SumTransfers(last'.transfers, Core, LeaseOwner(l))
              IN
              /\ paidTenant + paidOwner = held
              /\ paidTenant = held - d
              /\ paidOwner = d
              /\ balances'[Core] = balances[Core] - held
              /\ held > 0 =>
                     /\ balances'[leases[l].tenant] = balances[leases[l].tenant] + held - d
                     /\ balances'[LeaseOwner(l)] = balances[LeaseOwner(l)] + d
              /\ leases'[l].securityDepositHeld = 0
              /\ leases'[l].status = "Completed"]_vars

\* C4 witness: a deposit has just been split between tenant and owner
C4_Witness ==
    /\ last.op = "returnSecurityDeposit"
    /\ Len(last.transfers) = 2
    /\ last.transfers[1][3] > 0
    /\ last.transfers[2][3] > 0
    /\ leases[last.id].status = "Completed"
    /\ leases[last.id].securityDepositHeld = 0

\* C5: returnSecurityDeposit on a lease that has been settled (created, and its
\* securityDepositHeld back to 0) fails for every caller and every deduction,
\* including 0.
C5_SettledLeaseRefuses ==
    \A c \in Callers, l \in LeaseIds, d \in DeductionChoices :
        (LeaseCreated(l) /\ leases[l].securityDepositHeld = 0) =>
            returnSecurityDepositOutcome(c, l, d) # "ok"

\* C6: for every created lease, once securityDepositHeld is 0 it stays 0 and the
\* status is and stays Completed, whatever step follows.
C6_OneShotSettlement ==
    /\ [](\A l \in LeaseIds :
             (LeaseCreated(l) /\ leases[l].securityDepositHeld = 0) =>
                 leases[l].status = "Completed")
    /\ [][\A l \in LeaseIds :
             (LeaseCreated(l) /\ leases[l].securityDepositHeld = 0) =>
                 /\ LeaseCreated(l)'
                 /\ leases'[l].securityDepositHeld = 0
                 /\ leases'[l].status = "Completed"]_vars

\* C6 witness: a settled lease, and a later successful call on the contract
C6_Witness ==
    /\ \E l \in LeaseIds :
           /\ LeaseCreated(l)
           /\ leases[l].securityDepositHeld = 0
           /\ leases[l].totalPaid > 0
    /\ last.op # "returnSecurityDeposit"

\* The lease's term is not over and it has not been settled
InTerm(l) == leases[l].status = "Active" /\ now <= leases[l].endDate

\* C7: returnSecurityDeposit(l, d) succeeds only if the lease is Completed or
\* now > endDate, and only if d <= securityDepositHeld; on an Active lease with
\* now <= endDate, or with d > securityDepositHeld, it fails and changes nothing.
C7_NoEarlyOrExcessReturn ==
    /\ [](\A c \in Callers, l \in LeaseIds, d \in DeductionChoices :
             /\ returnSecurityDepositOutcome(c, l, d) = "ok" =>
                    /\ leases[l].status = "Completed" \/ now > leases[l].endDate
                    /\ d <= leases[l].securityDepositHeld
             /\ (InTerm(l) \/ d > leases[l].securityDepositHeld) =>
                    returnSecurityDepositOutcome(c, l, d) # "ok")
    /\ [][\/ UNCHANGED <<leases, balances>>
          \/ \A c \in Callers, l \in LeaseIds, d \in DeductionChoices :
                 ~(/\ InTerm(l) \/ d > leases[l].securityDepositHeld
                   /\ returnSecurityDeposit(c, l, d))]_vars

\* C7 witness: rent has been paid on a lease whose term is running, and the
\* owner's attempt to settle it now is refused
C7_Witness ==
    \E l \in LeaseIds :
        /\ LeaseCreated(l)
        /\ InTerm(l)
        /\ leases[l].totalPaid > 0
        /\ leases[l].securityDepositHeld > 0
        /\ returnSecurityDepositOutcome(LeaseOwner(l), l, 0) = "Lease not completed"

\* C8: every successful createLease raises the contract's token balance by
\* exactly the property's securityDeposit, pulled from the tenant, and stores an
\* Active lease with totalPaid 0, lastPaymentDate 0 and securityDepositHeld equal
\* to that deposit, appended to the tenant's lease index.
C8_LeaseCreation ==
    [][(vars' # vars /\ last'.op = "createLease") =>
       \A c \in Callers, p \in PropertyIds, a \in LeaseArgs :
          (/\ createLeaseOutcome(c, p, a.tenant, now + a.offset, a.months, a.due) = "ok"
           /\ createLease(c, p, a.tenant, now + a.offset, a.months, a.due)) =>
              LET id == leaseCounter
                  deposit == properties[p].securityDeposit
              IN
              /\ deposit > 0
              /\ balances'[Core] = balances[Core] + deposit
              /\ balances'[a.tenant] = balances[a.tenant] - deposit
              /\ leaseCounter' = id + 1
              /\ leases'[id].propertyId = p
              /\ leases'[id].tenant = a.tenant
              /\ leases'[id].status = "Active"
              /\ leases'[id].totalPaid = 0
              /\ leases'[id].lastPaymentDate = 0
              /\ leases'[id].securityDepositHeld = deposit
              /\ tenantLeases'[a.tenant] = Append(tenantLeases[a.tenant], id)]_vars

\* C8 witness: a lease has just been created and its deposit is in the contract
C8_Witness ==
    /\ last.op = "createLease"
    /\ leases[last.id].securityDepositHeld > 0
    /\ balances[Core] >= leases[last.id].securityDepositHeld
    /\ last.id \in {tenantLeases[leases[last.id].tenant][i] :
                       i \in 1..Len(tenantLeases[leases[last.id].tenant])}

\* createLease passes every check before the deposit pull
PullAttempted(c, p, a) ==
    /\ properties[p].owner = c
    /\ properties[p].isActive
    /\ a.tenant # ZERO
    /\ a.offset >= 0
    /\ a.months \in 1..MaxDurationMonths
    /\ a.due \in 1..MaxRentDueDay

\* C9: if the deposit pull from the tenant fails, createLease fails with "Security
\* deposit transfer failed" and leaves no trace: no lease record, leaseCounter,
\* the tenant index and every token balance and allowance are unchanged.
C9_FailedPullLeavesNoTrace ==
    /\ [](\A c \in Callers, p \in PropertyIds, a \in LeaseArgs :
             (PullAttempted(c, p, a)
              /\ ~TransferFromOK(a.tenant, properties[p].securityDeposit)) =>
                 createLeaseOutcome(c, p, a.tenant, now + a.offset, a.months, a.due) =
                     "Security deposit transfer failed")
    /\ [][\/ UNCHANGED <<leases, leaseCounter, tenantLeases, balances, allowances>>
          \/ \A c \in Callers, p \in PropertyIds, a \in LeaseArgs :
                 ~(/\ createLeaseOutcome(c, p, a.tenant, now + a.offset, a.months,
                                         a.due) = "Security deposit transfer failed"
                   /\ createLease(c, p, a.tenant, now + a.offset, a.months, a.due))]_vars

\* C9 witness: the tenant has spent its funds on rent, so the pull for a further
\* lease fails, and the next lease id is still unallocated
C9_Witness ==
    /\ last.op = "payRent"
    /\ \E c \in Callers, p \in PropertyIds, a \in LeaseArgs :
           /\ a.tenant = "tenant"
           /\ createLeaseOutcome(c, p, a.tenant, now + a.offset, a.months, a.due) =
                  "Security deposit transfer failed"
           /\ leases[leaseCounter] = ZeroLease

\* C10: for every lease, totalPaid is monthlyRent times the number of successful
\* payRent calls on it, and the property owner has received that same sum from
\* the tenant through the ledger.
C10_RentAccounting ==
    \A l \in LeaseIds :
        /\ leases[l].totalPaid =
               properties[leases[l].propertyId].monthlyRent * rentCount[l]
        /\ rentReceived[l] = leases[l].totalPaid

\* C10 witness: two rent payments on the same lease
C10_Witness ==
    /\ last.op = "payRent"
    /\ rentCount[last.id] = 2
    /\ leases[last.id].totalPaid > 0

\* C11: a successful payRent changes only the lease's lastPaymentDate and totalPaid
\* and the token balances of tenant and owner: the contract's own balance, every
\* securityDepositHeld, every maintenance escrow balance and every lease and
\* request status are unchanged.
C11_RentBypassesEscrow ==
    [][(vars' # vars /\ last'.op = "payRent") =>
       \A c \in Callers, l \in LeaseIds :
          (payRentOutcome(c, l) = "ok" /\ payRent(c, l)) =>
              LET rent == properties[leases[l].propertyId].monthlyRent IN
              /\ balances'[Core] = balances[Core]
              /\ balances'[c] = balances[c] - rent
              /\ balances'[LeaseOwner(l)] = balances[LeaseOwner(l)] + rent
              /\ \A h \in Holders \ {c, LeaseOwner(l)} : balances'[h] = balances[h]
              /\ leases' = [leases EXCEPT ![l].lastPaymentDate = now,
                                          ![l].totalPaid = @ + rent]
              /\ \A k \in LeaseIds :
                    /\ leases'[k].securityDepositHeld = leases[k].securityDepositHeld
                    /\ leases'[k].status = leases[k].status
              /\ UNCHANGED <<properties, maintenanceRequests, maintenanceFunds,
                             ownerProperties, tenantLeases, authorizedAIAgents,
                             propertyCounter, leaseCounter, maintenanceCounter,
                             paused>>]_vars

\* C11 witness: rent has just been paid while the contract holds the deposit
C11_Witness ==
    /\ last.op = "payRent"
    /\ leases[last.id].securityDepositHeld > 0
    /\ balances[Core] = leases[last.id].securityDepositHeld
    /\ balances[LeaseOwner(last.id)] > InitialBalance(LeaseOwner(last.id))

\* The preconditions of payRent on lease l for caller c
RentPayable(c, l) ==
    /\ leases[l].status = "Active"
    /\ c = leases[l].tenant
    /\ leases[l].startDate <= now
    /\ now <= leases[l].endDate

\* C12: payRent succeeds only on an Active lease, called by its tenant, with
\* startDate <= now <= endDate; no step that changes the state is a payRent call
\* made without these preconditions.
C12_RentPreconditions ==
    /\ [](\A c \in Callers, l \in LeaseIds :
             payRentOutcome(c, l) = "ok" => RentPayable(c, l))
    /\ [][vars' # vars =>
             \A c \in Callers, l \in LeaseIds :
                ~(~RentPayable(c, l) /\ payRent(c, l))]_vars

\* C12 witness: a lease on which rent was paid has been settled, and its tenant's
\* next payment is refused, as is the owner's on a lease that has not started
C12_Witness ==
    \E l \in LeaseIds :
        /\ LeaseCreated(l)
        /\ leases[l].status = "Completed"
        /\ leases[l].totalPaid > 0
        /\ payRentOutcome(leases[l].tenant, l) = "Lease not active"
        /\ payRentOutcome(LeaseOwner(l), l) # "ok"

\* Amounts tried as monthlyRent and securityDeposit
SmallAmounts == 0..3

\* The registration is one the code must refuse
BadTerms(monthlyRent, securityDeposit) ==
    monthlyRent = 0 \/ securityDeposit < monthlyRent

\* C13: every registered property has monthlyRent > 0 and securityDeposit >=
\* monthlyRent; registerProperty with monthlyRent = 0 or securityDeposit <
\* monthlyRent fails for every caller, and no step that changes properties,
\* propertyCounter or the owner index is such a call.
C13_RegistrationTerms ==
    /\ [](\A p \in PropertyIds :
             p < propertyCounter =>
                 /\ properties[p].monthlyRent > 0
                 /\ properties[p].securityDeposit >= properties[p].monthlyRent)
    /\ [](\A c \in Callers, r \in SmallAmounts, d \in SmallAmounts :
             BadTerms(r, d) => registerPropertyOutcome(c, r, d) # "ok")
    /\ [][\/ UNCHANGED <<properties, propertyCounter, ownerProperties>>
          \/ \A c \in Callers, r \in SmallAmounts, d \in SmallAmounts :
                 ~(BadTerms(r, d) /\ registerProperty(c, r, d))]_vars

\* C13 witness: a property has been registered with valid terms, and while the
\* contract is not paused both kinds of invalid terms are refused for their own
\* reason, a deposit equal to the rent being accepted
C13_Witness ==
    /\ last.op = "registerProperty"
    /\ propertyCounter > 0
    /\ ~paused
    /\ registerPropertyOutcome("landlord", 0, 3) = "Rent must be positive"
    /\ registerPropertyOutcome("landlord", 2, 1) = "Deposit must be >= monthly rent"
    /\ registerPropertyOutcome("landlord", 2, 2) = "ok"

\* C14: while the pause switch is on, every mutating entry point fails, for
\* every caller and argument list.
C14_PauseBlocksMutations ==
    paused =>
        /\ \A c \in Callers, r \in SmallAmounts, d \in SmallAmounts :
               registerPropertyOutcome(c, r, d) # "ok"
        /\ \A c \in Callers, p \in PropertyIds :
               /\ deactivatePropertyOutcome(c, p) # "ok"
               /\ requestMaintenanceOutcome(c, p, 1, 1) # "ok"
               /\ fundMaintenanceOutcome(c, p, AutoApprovalLimit) # "ok"
               /\ \A a \in LeaseArgs :
                      createLeaseOutcome(c, p, a.tenant, now + a.offset, a.months,
                                         a.due) # "ok"
        /\ \A c \in Callers, l \in LeaseIds :
               /\ payRentOutcome(c, l) # "ok"
               /\ \A d \in DeductionChoices :
                      returnSecurityDepositOutcome(c, l, d) # "ok"
        /\ \A c \in Callers, r \in RequestIds :
               /\ approveMaintenanceOutcome(c, r, 1, "contractor") # "ok"
               /\ payMaintenanceContractorOutcome(c, r) # "ok"

\* The account holds a created lease on the property whose status is Active
HoldsActiveLease(c, p) ==
    \E l \in LeaseIds :
        /\ LeaseCreated(l)
        /\ leases[l].tenant = c
        /\ leases[l].propertyId = p
        /\ leases[l].status = "Active"

\* The account may request maintenance on the property
MayRequest(c, p) == properties[p].owner = c \/ HoldsActiveLease(c, p)

C16_AgentOnly ==
    /\ [](\A c \in Accounts :
             ~authorizedAIAgents[c] =>
                 /\ \A r \in RequestIds, a \in AmountChoices, k \in ContractorChoices :
                        approveMaintenanceOutcome(c, r, a, k) = "Not authorized AI agent"
                 /\ \A l \in LeaseIds :
                        checkRentOverdueOutcome(c, l) = "Not authorized AI agent")
    /\ [][\/ UNCHANGED <<maintenanceRequests, last>>
          \/ \A c \in Callers :
                 ~authorizedAIAgents[c] =>
                     /\ \A r \in RequestIds, a \in AmountChoices,
                           k \in ContractorChoices : ~approveMaintenance(c, r, a, k)
                     /\ \A l \in LeaseIds : ~checkRentOverdue(c, l)]_vars

\* C16 witness: the agent approved a request while authorized and has just been
\* revoked: its approval of the other request and its overdue check of a created
\* lease are now refused
C16_Witness ==
    /\ last.op = "setAIAgent"
    /\ last.event.who = "agent"
    /\ ~authorizedAIAgents["agent"]
    /\ \E r \in RequestIds : maintenanceRequests[r].status = "Approved"
    /\ \E r \in RequestIds :
           /\ maintenanceRequests[r].status = "Pending"
           /\ approveMaintenanceOutcome("agent", r, 1, "contractor") =
                  "Not authorized AI agent"
    /\ \E l \in LeaseIds :
           /\ LeaseCreated(l)
           /\ checkRentOverdueOutcome("agent", l) = "Not authorized AI agent"

\* The account is the owner of the property or a currently authorized agent
OwnerOrAgent(c, propertyId) ==
    c = properties[propertyId].owner \/ authorizedAIAgents[c]

\* C17: payMaintenanceContractor and returnSecurityDeposit succeed only when the
\* caller is the owner of the property concerned or a currently authorized
\* agent, and no step that changes the state is a call of either by any other
\* account.
C17_PayoutAuthorization ==
    /\ [](\A c \in Accounts :
             /\ \A r \in RequestIds :
                    payMaintenanceContractorOutcome(c, r) = "ok" =>
                        OwnerOrAgent(c, maintenanceRequests[r].propertyId)
             /\ \A l \in LeaseIds, d \in DeductionChoices :
                    returnSecurityDepositOutcome(c, l, d) = "ok" =>
                        OwnerOrAgent(c, leases[l].propertyId))
    /\ [][vars' # vars =>
             \A c \in Callers :
                /\ \A r \in RequestIds :
                       ~(/\ ~OwnerOrAgent(c, maintenanceRequests[r].propertyId)
                         /\ payMaintenanceContractor(c, r))
                /\ \A l \in LeaseIds, d \in DeductionChoices :
                       ~(/\ ~OwnerOrAgent(c, leases[l].propertyId)
                         /\ returnSecurityDeposit(c, l, d))]_vars

\* C17 witness: the owner has just settled a created lease, a created request is
\* Approved and funded, and the tenant and the contractor are refused both
\* payouts for lack of authority while the agent is not
C17_Witness ==
    /\ last.op = "returnSecurityDeposit"
    /\ LeaseCreated(last.id)
    /\ Len(last.transfers) = 2
    /\ returnSecurityDepositOutcome("tenant", last.id, 0) = "Not authorized"
    /\ returnSecurityDepositOutcome("contractor", last.id, 0) = "Not authorized"
    /\ returnSecurityDepositOutcome("agent", last.id, 0) = "ok"
    /\ \E r \in RequestIds :
           /\ r < maintenanceCounter
           /\ maintenanceRequests[r].status = "Approved"
           /\ payMaintenanceContractorOutcome("agent", r) = "ok"
           /\ payMaintenanceContractorOutcome("tenant", r) = "Not authorized"
           /\ payMaintenanceContractorOutcome("contractor", r) = "Not authorized"

\* C18: deactivateProperty, createLease and fundMaintenance on a property succeed
\* only for the account that registered it, which is its owner for good and is
\* indexed as such; for any other account, the global owner and authorized
\* agents included, they fail with "Not property owner", and no step that changes
\* the state is such a call.
C18_PropertyOwnerOnly ==
    /\ [](\A p \in PropertyIds :
             p < propertyCounter =>
                 \E i \in 1..Len(ownerProperties[properties[p].owner]) :
                     ownerProperties[properties[p].owner][i] = p)
    /\ [](\A c \in Accounts, p \in PropertyIds :
             c # properties[p].owner =>
                 /\ deactivatePropertyOutcome(c, p) = "Not property owner"
                 /\ \A a \in LeaseArgs :
                        createLeaseOutcome(c, p, a.tenant, now + a.offset, a.months,
                                           a.due) = "Not property owner"
                 /\ \A f \in FundChoices :
                        fundMaintenanceOutcome(c, p, f) = "Not property owner")
    /\ [][vars' # vars =>
             \A c \in Callers, p \in PropertyIds :
                /\ p < propertyCounter => properties'[p].owner = properties[p].owner
                /\ c # properties[p].owner =>
                       /\ ~deactivateProperty(c, p)
                       /\ \A a \in LeaseArgs :
                              ~createLease(c, p, a.tenant, now + a.offset, a.months,
                                           a.due)
                       /\ \A f \in FundChoices : ~fundMaintenance(c, p, f)]_vars

\* C18 witness: the registering account has created a lease on its property,
\* deactivated it and has just funded its escrow, while the global owner and an
\* authorized agent are refused all three calls on it
C18_Witness ==
    /\ last.op = "fundMaintenance"
    /\ authorizedAIAgents["agent"]
    /\ \E p \in PropertyIds :
           /\ p < propertyCounter
           /\ ~properties[p].isActive
           /\ maintenanceFunds[p] > 0
           /\ HoldsActiveLease("tenant", p)
           /\ \A c \in {Deployer, "agent"} :
                  /\ deactivatePropertyOutcome(c, p) = "Not property owner"
                  /\ createLeaseOutcome(c, p, "tenant", now, 1, 1) = "Not property owner"
                  /\ fundMaintenanceOutcome(c, p, 1) = "Not property owner"

\* C19: setAIAgent, pause and unpause called by an account other than the global
\* owner fail with "Ownable: caller is not the owner", setAIAgent with the zero
\* address fails for every caller, every step that changes the agent set is a
\* setAIAgent call by the global owner and every step that changes the pause flag
\* is its pause or unpause call.
C19_OwnerOnlyAdministration ==
    /\ [](\A c \in Accounts :
             /\ c # Deployer =>
                    /\ \A a \in Addresses, b \in BOOLEAN :
                           setAIAgentOutcome(c, a, b) = "Ownable: caller is not the owner"
                    /\ pauseOutcome(c) = "Ownable: caller is not the owner"
                    /\ unpauseOutcome(c) = "Ownable: caller is not the owner"
             /\ \A b \in BOOLEAN : setAIAgentOutcome(c, ZERO, b) # "ok")
    /\ [][authorizedAIAgents' # authorizedAIAgents =>
             \E a \in Accounts, b \in BOOLEAN :
                /\ setAIAgentOutcome(Deployer, a, b) = "ok"
                /\ setAIAgent(Deployer, a, b)]_vars
    /\ [][paused' # paused =>
             \/ pauseOutcome(Deployer) = "ok" /\ pause(Deployer)
             \/ unpauseOutcome(Deployer) = "ok" /\ unpause(Deployer)]_vars

\* C19 witness: after an agent was authorized, the contract paused and a lease
\* created, the global owner has just lifted the pause, and the property owner's
\* and the agent's own administration calls are refused
C19_Witness ==
    /\ last.op = "unpause"
    /\ ~paused
    /\ authorizedAIAgents["agent"]
    /\ leaseCounter > 0
    /\ \A c \in {"landlord", "agent"} :
           /\ setAIAgentOutcome(c, "agent", FALSE) = "Ownable: caller is not the owner"
           /\ pauseOutcome(c) = "Ownable: caller is not the owner"

\* C20: every gated operation called on a created target by an account lacking
\* the required capability fails with that operation's authorization error,
\* whatever the state of the target.
C20_UnauthorizedWhateverState ==
    \A c \in Accounts :
        /\ c # Deployer =>
               /\ setAIAgentOutcome(c, "agent", TRUE) = "Ownable: caller is not the owner"
               /\ pauseOutcome(c) = "Ownable: caller is not the owner"
               /\ unpauseOutcome(c) = "Ownable: caller is not the owner"
        /\ \A p \in PropertyIds :
               p < propertyCounter =>
                   /\ c # properties[p].owner =>
                          /\ deactivatePropertyOutcome(c, p) = "Not property owner"
                          /\ createLeaseOutcome(c, p, "tenant", now, 1, 1) =
                                 "Not property owner"
                          /\ fundMaintenanceOutcome(c, p, 1) = "Not property owner"
                   /\ ~MayRequest(c, p) =>
                          requestMaintenanceOutcome(c, p, 1, 1) =
                              "Not authorized for this property"
        /\ \A r \in RequestIds :
               r < maintenanceCounter =>
                   /\ ~authorizedAIAgents[c] =>
                          approveMaintenanceOutcome(c, r, 1, "contractor") =
                              "Not authorized AI agent"
                   /\ ~OwnerOrAgent(c, maintenanceRequests[r].propertyId) =>
                          payMaintenanceContractorOutcome(c, r) = "Not authorized"
        /\ \A l \in LeaseIds :
               LeaseCreated(l) =>
                   /\ ~authorizedAIAgents[c] =>
                          checkRentOverdueOutcome(c, l) = "Not authorized AI agent"
                   /\ ~OwnerOrAgent(c, leases[l].propertyId) =>
                          returnSecurityDepositOutcome(c, l, 0) = "Not authorized"

\* C21: an operation given an id that was never allocated fails, for every caller
\* and argument list: approveMaintenance and payMaintenanceContractor on a
\* requestId >= maintenanceCounter, returnSecurityDeposit, checkRentOverdue and
\* payRent on a leaseId >= leaseCounter, createLease, fundMaintenance and
\* requestMaintenance on a propertyId >= propertyCounter.
C21_UnallocatedIdsRefused ==
    \A c \in Accounts :
        /\ \A r \in RequestIds :
               r >= maintenanceCounter =>
                   /\ \A a \in AmountChoices, k \in ContractorChoices :
                          approveMaintenanceOutcome(c, r, a, k) # "ok"
                   /\ payMaintenanceContractorOutcome(c, r) # "ok"
        /\ \A l \in LeaseIds :
               l >= leaseCounter =>
                   /\ \A d \in DeductionChoices :
                          returnSecurityDepositOutcome(c, l, d) # "ok"
                   /\ checkRentOverdueOutcome(c, l) # "ok"
                   /\ payRentOutcome(c, l) # "ok"
        /\ \A p \in PropertyIds :
               p >= propertyCounter =>
                   /\ \A a \in LeaseArgs :
                          createLeaseOutcome(c, p, a.tenant, now + a.offset, a.months,
                                             a.due) # "ok"
                   /\ \A f \in FundChoices : fundMaintenanceOutcome(c, p, f) # "ok"
                   /\ \A n \in DescriptionLengths, e \in CostChoices :
                          requestMaintenanceOutcome(c, p, n, e) # "ok"

\* The settlement and payout lifecycle over a ledger whose transfers can fail
FreezeStep == \E holders \in FreezeChoices : Freeze(holders)

LedgerCallers == {"deployer", "landlord", "agent"}

LedgerStep ==
    \/ \E c \in LedgerCallers, p \in PropertyIds :
          createLease(c, p, "tenant", now, 1, 1)
    \/ \E c \in LedgerCallers, l \in LeaseIds :
          LeaseCreated(l) /\ returnSecurityDeposit(c, l, 1)
    \/ \E c \in LedgerCallers, p \in PropertyIds : requestMaintenance(c, p, 1, 1)
    \/ \E c \in LedgerCallers, r \in RequestIds :
          r < maintenanceCounter /\ approveMaintenance(c, r, 1, "contractor")
    \/ \E c \in LedgerCallers, p \in PropertyIds :
          fundMaintenance(c, p, AutoApprovalLimit)
    \/ \E c \in LedgerCallers, r \in RequestIds :
          r < maintenanceCounter /\ payMaintenanceContractor(c, r)
    \/ \E c \in LedgerCallers : setAIAgent(c, "agent", TRUE)
    \/ Tick(Genesis + DaysPerMonth * Day + 1)

NextLedger == RegisterStep \/ LedgerStep \/ FreezeStep

SpecLedger == Init /\ [][NextLedger]_vars

\* C22: a failed token transfer aborts the whole operation.  No step that changes
\* the escrow balances, the requests or the token balances is a
\* payMaintenanceContractor whose contractor transfer fails, and no step that
\* changes the leases or the token balances is a returnSecurityDeposit one of
\* whose transfers fails, the owner's deduction transfer after the tenant's
\* return went through included.
C22_FailedTransferAborts ==
    /\ [][\/ UNCHANGED <<maintenanceFunds, maintenanceRequests, balances>>
          \/ \A c \in Callers, r \in RequestIds :
                 ~(/\ payMaintenanceContractorOutcome(c, r) = "Contractor payment failed"
                   /\ payMaintenanceContractor(c, r))]_vars
    /\ [][\/ UNCHANGED <<leases, balances>>
          \/ \A c \in Callers, l \in LeaseIds, d \in DeductionChoices :
                 ~(/\ returnSecurityDepositOutcome(c, l, d)
                          \in {"Deposit return failed", "Deduction transfer failed"}
                   /\ returnSecurityDeposit(c, l, d))]_vars

\* a created lease past its term whose tenant the ledger pays and whose owner it
\* does not, so that a settlement with a deduction fails at its second transfer,
\* and an approved, funded request whose contractor the ledger does not pay
C22_Witness ==
    \E l \in LeaseIds, r \in RequestIds :
        /\ LeaseCreated(l)
        /\ leases[l].securityDepositHeld > 1
        /\ leases[l].tenant \notin frozen
        /\ returnSecurityDepositOutcome(LeaseOwner(l), l, 1) = "Deduction transfer failed"
        /\ r < maintenanceCounter
        /\ payMaintenanceContractorOutcome(
               properties[maintenanceRequests[r].propertyId].owner, r)
               = "Contractor payment failed"

(***************************************************************************)
(* The end-to-end scenario of the test suite, with its amounts, counted in *)
(* whole USDC: the contract only adds, subtracts and compares amounts      *)
(***************************************************************************)
RENT_AMOUNT == 2500
DEPOSIT_AMOUNT == 2500
MAINTENANCE_COST == 150
FundAmount == 1000
Deduction == 500
LeaseMonths == 12

\* What the fixture mints to each signer
ScenarioBalance(a) ==
    CASE a = "landlord" -> 100000
      [] a = "tenant" -> 50000
      [] a = "contractor" -> 10000
      [] OTHER -> 0

\* What each signer lets the contract pull: the deposit and two rents, two fundings
ScenarioAllowance(a) ==
    CASE a = "landlord" -> 2 * FundAmount
      [] a = "tenant" -> DEPOSIT_AMOUNT + 2 * RENT_AMOUNT
      [] OTHER -> 0

InitScenario ==
    /\ properties = [p \in PropertyIds |-> ZeroProperty]
    /\ leases = [l \in LeaseIds |-> ZeroLease]
    /\ maintenanceRequests = [r \in RequestIds |-> ZeroRequest]
    /\ ownerProperties = [a \in Accounts |-> <<>>]
    /\ tenantLeases = [a \in Accounts |-> <<>>]
    /\ maintenanceFunds = [p \in PropertyIds |-> 0]
    /\ authorizedAIAgents = [a \in Accounts |-> FALSE]
    /\ propertyCounter = 0
    /\ leaseCounter = 0
    /\ maintenanceCounter = 0
    /\ paused = FALSE
    /\ now = Genesis
    /\ balances = [a \in Holders |-> ScenarioBalance(a)]
    /\ allowances = [a \in Accounts |-> ScenarioAllowance(a)]
    /\ last = NoCall
    /\ paidCount = [r \in RequestIds |-> 0]
    /\ rentCount = [l \in LeaseIds |-> 0]
    /\ rentReceived = [l \in LeaseIds |-> 0]
    /\ frozen = {}

ScenarioStep ==
    \/ registerProperty("landlord", RENT_AMOUNT, DEPOSIT_AMOUNT)
    \/ \E p \in PropertyIds : createLease("landlord", p, "tenant", now, LeaseMonths, 1)
    \/ \E l \in LeaseIds : LeaseCreated(l) /\ payRent("tenant", l)
    \/ \E p \in PropertyIds : requestMaintenance("tenant", p, 1, MAINTENANCE_COST)
    \/ setAIAgent("deployer", "agent", TRUE)
    \/ \E r \in RequestIds :
          r < maintenanceCounter
          /\ approveMaintenance("agent", r, MAINTENANCE_COST, "contractor")
    \/ \E p \in PropertyIds : fundMaintenance("landlord", p, FundAmount)
    \/ \E r \in RequestIds :
          r < maintenanceCounter /\ payMaintenanceContractor("landlord", r)
    \/ Tick(Genesis + LeaseMonths * DaysPerMonth * Day + 1)
    \/ \E l \in LeaseIds :
          LeaseCreated(l) /\ returnSecurityDeposit("landlord", l, Deduction)

NextScenario == ScenarioStep

SpecScenario == InitScenario /\ [][NextScenario]_vars

\* C23: the steps of the end-to-end scenario move the stated amounts.  On a
\* property of rent 2500 and deposit 2500 with a 12-month lease: a rent payment
\* adds 2500 to totalPaid (2500 after the first) and to the owner's balance; the
\* payout of a request approved for 150 adds 150 to the contractor's balance and
\* takes 150 from the property's escrow (850 left of a funding of 1000); after the
\* lease's end the owner's return of the deposit with a deduction of 500 adds 2000
\* to the tenant's balance and 500 to the owner's, and leaves the lease Completed
\* with securityDepositHeld 0.
C23_ScenarioBalances ==
    /\ [][\A l \in LeaseIds :
            (LeaseCreated(l) /\ payRentOutcome("tenant", l) = "ok"
             /\ payRent("tenant", l)) =>
                /\ leases'[l].totalPaid = leases[l].totalPaid + RENT_AMOUNT
                /\ rentCount[l] = 0 => leases'[l].totalPaid = RENT_AMOUNT
                /\ balances'["landlord"] = balances["landlord"] + RENT_AMOUNT
                /\ balances'["tenant"] = balances["tenant"] - RENT_AMOUNT
                /\ balances'[Core] = balances[Core]]_vars
    /\ [][\A r \in RequestIds :
            (r < maintenanceCounter /\ payMaintenanceContractorOutcome("landlord", r) = "ok"
             /\ payMaintenanceContractor("landlord", r)) =>
                LET p == maintenanceRequests[r].propertyId IN
                /\ balances'["contractor"] = balances["contractor"] + MAINTENANCE_COST
                /\ maintenanceFunds'[p] = maintenanceFunds[p] - MAINTENANCE_COST
                /\ maintenanceFunds[p] = FundAmount =>
                       maintenanceFunds'[p] = 850]_vars
    /\ [][\A l \in LeaseIds :
            (/\ LeaseCreated(l)
             /\ leases[l].status = "Active"
             /\ returnSecurityDepositOutcome("landlord", l, Deduction) = "ok"
             /\ returnSecurityDeposit("landlord", l, Deduction)) =>
                /\ now > leases[l].endDate
                /\ balances'["tenant"] = balances["tenant"] + 2000
                /\ balances'["landlord"] = balances["landlord"] + Deduction
                /\ leases'[l].status = "Completed"
                /\ leases'[l].securityDepositHeld = 0]_vars

\* the scenario has run to its end, each step once: the balances are the stated ones
C23_Witness ==
    \E p \in PropertyIds, l \in LeaseIds, r \in RequestIds :
        /\ p < propertyCounter /\ LeaseCreated(l) /\ r < maintenanceCounter
        /\ properties[p].monthlyRent = RENT_AMOUNT
        /\ properties[p].securityDeposit = DEPOSIT_AMOUNT
        /\ leases[l].propertyId = p
        /\ leases[l].endDate = leases[l].startDate + LeaseMonths * DaysPerMonth * Day
        /\ rentCount[l] = 1
        /\ leases[l].totalPaid = RENT_AMOUNT
        /\ maintenanceRequests[r].propertyId = p
        /\ maintenanceRequests[r].requestedBy = "tenant"
        /\ maintenanceRequests[r].approvedAmount = MAINTENANCE_COST
        /\ maintenanceRequests[r].contractor = "contractor"
        /\ maintenanceRequests[r].status = "Completed"
        /\ maintenanceFunds[p] = 850
        /\ last.op = "returnSecurityDeposit" /\ last.id = l
        /\ last.transfers = << <<Core, "tenant", 2000>>,
                               <<Core, "landlord", Deduction>> >>
        /\ leases[l].status = "Completed"
        /\ leases[l].securityDepositHeld = 0
        /\ balances["tenant"] = ScenarioBalance("tenant") - DEPOSIT_AMOUNT - RENT_AMOUNT
                                    + 2000
        /\ balances["landlord"] = ScenarioBalance("landlord") + RENT_AMOUNT - FundAmount
                                      + Deduction
        /\ balances["contractor"] = ScenarioBalance("contractor") + MAINTENANCE_COST
        /\ balances[Core] = 850

\* C24: an event is emitted once per successful transition: at most one
\* MaintenancePaid per request, and at most one SecurityDepositReturned per lease,
\* so no call emits SecurityDepositReturned for a created lease that is already
\* settled (Completed, securityDepositHeld 0).
C24_EventsOncePerTransition ==
    /\ [](\A r \in RequestIds : paidCount[r] <= 1)
    /\ [][\A c \in Callers, l \in LeaseIds, d \in DeductionChoices :
            ~(/\ LeaseCreated(l)
              /\ leases[l].status = "Completed"
              /\ leases[l].securityDepositHeld = 0
              /\ returnSecurityDepositOutcome(c, l, d) = "ok"
              /\ returnSecurityDeposit(c, l, d)
              /\ last'.event.name = "SecurityDepositReturned"
              /\ last'.event.id = l)]_vars

C26_LeaseLifecycle ==
    /\ [](\A l \in LeaseIds : leases[l].status \in {"Active", "Completed"})
    /\ [][\A l \in LeaseIds :
            (/\ LeaseCreated(l)
             /\ \/ leases'[l].status # leases[l].status
                \/ leases'[l].securityDepositHeld # leases[l].securityDepositHeld) =>
                /\ \E c \in Callers, d \in DeductionChoices :
                       /\ returnSecurityDepositOutcome(c, l, d) = "ok"
                       /\ returnSecurityDeposit(c, l, d)
                /\ leases[l].status = "Active"
                /\ leases'[l].status = "Completed"
                /\ leases'[l].securityDepositHeld = 0]_vars

\* a created lease took rent and was then settled: Completed, nothing held
C26_Witness ==
    \E l \in LeaseIds :
        /\ LeaseCreated(l)
        /\ rentCount[l] > 0
        /\ leases[l].status = "Completed"
        /\ leases[l].securityDepositHeld = 0
        /\ last.op = "returnSecurityDeposit" /\ last.id = l
        /\ Len(last.transfers) > 0

C28_EscrowFrame ==
    [][maintenanceFunds' # maintenanceFunds =>
         \/ \E c \in Callers, p \in PropertyIds, a \in FundChoices :
               /\ fundMaintenanceOutcome(c, p, a) = "ok"
               /\ fundMaintenance(c, p, a)
               /\ c = properties[p].owner
               /\ a > 0
               /\ maintenanceFunds'[p] = maintenanceFunds[p] + a
               /\ \A q \in PropertyIds \ {p} : maintenanceFunds'[q] = maintenanceFunds[q]
         \/ \E c \in Callers, r \in RequestIds :
               LET request == maintenanceRequests[r]
                   p == request.propertyId
               IN
               /\ payMaintenanceContractorOutcome(c, r) = "ok"
               /\ payMaintenanceContractor(c, r)
               /\ maintenanceFunds'[p] = maintenanceFunds[p] - request.approvedAmount
               /\ \A q \in PropertyIds \ {p} : maintenanceFunds'[q] = maintenanceFunds[q]
               /\ balances'[request.contractor]
                      = balances[request.contractor] + request.approvedAmount]_vars

\* a property was funded and paid a contractor out of its escrow while the
\* contract also holds a lease's deposit
C28_Witness ==
    \E p \in PropertyIds, r \in RequestIds, l \in LeaseIds :
        /\ r < maintenanceCounter /\ LeaseCreated(l)
        /\ maintenanceRequests[r].propertyId = p
        /\ last.op = "payMaintenanceContractor" /\ last.id = r
        /\ maintenanceFunds[p] = AutoApprovalLimit - maintenanceRequests[r].approvedAmount
        /\ leases[l].securityDepositHeld > 0
        /\ balances[Core] = maintenanceFunds[p] + leases[l].securityDepositHeld

\* C29: deactivation is irreversible and closes the property to new business.
\* A successful deactivateProperty(p) leaves p inactive; a registered property
\* that is inactive stays inactive in every later state; every createLease and
\* every requestMaintenance for it fails, whoever calls and whatever the
\* arguments; and no step adds a lease or a maintenance request for it.
C29_DeactivationIsFinal ==
    /\ [](\A p \in PropertyIds :
             (p < propertyCounter /\ ~properties[p].isActive) =>
                 \A c \in Callers :
                     /\ \A a \in LeaseArgs :
                            createLeaseOutcome(c, p, a.tenant, now + a.offset, a.months,
                                               a.due) # "ok"
                     /\ \A n \in DescriptionLengths, e \in CostChoices :
                            requestMaintenanceOutcome(c, p, n, e) # "ok")
    /\ [][vars' # vars =>
          \A p \in PropertyIds :
            /\ (p < propertyCounter /\ ~properties[p].isActive) =>
                   /\ ~properties'[p].isActive
                   /\ leaseCounter' > leaseCounter =>
                          leases'[leaseCounter].propertyId # p
                   /\ maintenanceCounter' > maintenanceCounter =>
                          maintenanceRequests'[maintenanceCounter].propertyId # p
            /\ \A c \in Callers :
                   (deactivatePropertyOutcome(c, p) = "ok" /\ deactivateProperty(c, p)
                    /\ last'.op = "deactivateProperty") =>
                       ~properties'[p].isActive]_vars

\* a property with a running lease was deactivated: its tenant, who could ask
\* for maintenance before, and its owner are refused
C29_Witness ==
    \E p \in PropertyIds, l \in LeaseIds :
        /\ p < propertyCounter
        /\ ~properties[p].isActive
        /\ last.op = "deactivateProperty" /\ last.id = p
        /\ LeaseCreated(l)
        /\ leases[l].propertyId = p
        /\ leases[l].status = "Active"
        /\ _isTenantOfProperty(leases[l].tenant, p)
        /\ requestMaintenanceOutcome(leases[l].tenant, p, 1, 1) = "Property not active"
        /\ createLeaseOutcome(properties[p].owner, p, "tenant", now, 1, 1) # "ok"

\* C30: a registered property keeps its terms.  On every step propertyCounter
\* does not decrease, and for every registered property the owner, monthlyRent
\* and securityDeposit stay the same; isActive changes only from true to false and
\* only by a successful deactivateProperty on that property.
C30_PropertyTermsFixed ==
    [][vars' # vars =>
         /\ propertyCounter' >= propertyCounter
         /\ \A p \in PropertyIds :
               p < propertyCounter =>
                   /\ properties'[p].owner = properties[p].owner
                   /\ properties'[p].monthlyRent = properties[p].monthlyRent
                   /\ properties'[p].securityDeposit = properties[p].securityDeposit
                   /\ properties'[p].isActive # properties[p].isActive =>
                          /\ properties[p].isActive
                          /\ \E c \in Callers :
                                 /\ deactivatePropertyOutcome(c, p) = "ok"
                                 /\ deactivateProperty(c, p)]_vars

\* a property that took a lease and escrow funds was deactivated by its owner and
\* still has the owner and the terms it was registered with
C30_Witness ==
    \E p \in PropertyIds, l \in LeaseIds :
        /\ p < propertyCounter
        /\ last.op = "deactivateProperty" /\ last.id = p
        /\ ~properties[p].isActive
        /\ properties[p].owner = "landlord"
        /\ properties[p].monthlyRent = 2
        /\ properties[p].securityDeposit = 3
        /\ LeaseCreated(l) /\ leases[l].propertyId = p
        /\ maintenanceFunds[p] > 0

(***************************************************************************)
(* Rent monitoring: a lease, its rent payments, the agent's checks, and    *)
(* the block timestamps around the two thresholds                          *)
(***************************************************************************)
GraceDays == 5
LateDays == 35

\* deployment; the last second inside and the first second past the grace
\* period of a lease started at deployment; the last second of day 35 and the
\* first of day 36 after a payment made at deployment
OverduePoints ==
    {Genesis, Genesis + GraceDays * Day, Genesis + GraceDays * Day + 1,
     Genesis + (LateDays + 1) * Day - 1, Genesis + (LateDays + 1) * Day}

RentWatchStep ==
    \/ \E p \in PropertyIds : createLease("landlord", p, "tenant", now, 1, 1)
    \/ \E l \in LeaseIds : LeaseCreated(l) /\ payRent("tenant", l)
    \/ setAIAgent("deployer", "agent", TRUE)
    \/ \E c \in Callers, l \in LeaseIds : checkRentOverdue(c, l)
    \/ \E t \in OverduePoints : Tick(t)

NextOverdue == RegisterStep \/ RentWatchStep

SpecOverdue == Init /\ [][NextOverdue]_vars

\* C31: a successful checkRentOverdue on a created lease signals overdue exactly
\* when the lease was never paid and now > startDate + 5 days, with the whole
\* days since the start, or the lease was paid and the whole days since the last
\* payment exceed 35, with that number minus 30; otherwise it emits nothing.
C31_OverdueSignal ==
    [][last' # last =>
         \A c \in Callers, l \in LeaseIds :
            (/\ LeaseCreated(l)
             /\ checkRentOverdueOutcome(c, l) = "ok"
             /\ checkRentOverdue(c, l)) =>
                LET lease == leases[l]
                    sinceStart == (now - lease.startDate) \div Day
                    sincePayment == (now - lease.lastPaymentDate) \div Day
                IN
                IF rentCount[l] = 0 /\ now > lease.startDate + GraceDays * Day
                THEN last'.event = Event("RentOverdue", l, ZERO, sinceStart, 0)
                ELSE IF rentCount[l] > 0 /\ sincePayment > LateDays
                THEN last'.event = Event("RentOverdue", l, ZERO, sincePayment - 30, 0)
                ELSE last'.event = NoEvent]_vars

\* a paid lease was checked on day 36 after its payment: overdue by 6 days
C31_Witness ==
    \E l \in LeaseIds :
        /\ LeaseCreated(l)
        /\ rentCount[l] > 0
        /\ now - leases[l].lastPaymentDate = (LateDays + 1) * Day
        /\ last.op = "checkRentOverdue" /\ last.id = l
        /\ last.event = Event("RentOverdue", l, ZERO, 6, 0)

\* C32: checkRentOverdue changes no state.  Every step that leaves a
\* checkRentOverdue as the last successful call on record without that call
\* having been on record before is a step that changed no lease, property,
\* request, index, counter, agent, pause flag, escrow balance, token balance or
\* allowance; and a lease that was signalled overdue is still Active, with its
\* deposit, payments and dates as before.
C32_OverdueIsAdvisory ==
    [][(last' # last /\ last'.op = "checkRentOverdue") =>
          /\ UNCHANGED <<coreVars, balances, allowances, ghostVars, now>>
          /\ \E c \in Callers, l \in LeaseIds :
                /\ checkRentOverdueOutcome(c, l) = "ok"
                /\ last'.id = l
                /\ leases'[l] = leases[l]
                /\ leases'[l].status = "Active"]_vars

\* an overdue signal was emitted for a created lease, which is still Active and
\* still holds its deposit
C32_Witness ==
    \E l \in LeaseIds :
        /\ LeaseCreated(l)
        /\ last.op = "checkRentOverdue" /\ last.id = l
        /\ last.event.name = "RentOverdue"
        /\ leases[l].status = "Active"
        /\ leases[l].securityDepositHeld = properties[leases[l].propertyId].securityDeposit
        /\ balances[Core] >= leases[l].securityDepositHeld

DurationEdges == {0, 1, MaxDurationMonths, MaxDurationMonths + 1}
DueDayEdges == {0, 1, MaxRentDueDay, MaxRentDueDay + 1}

ValidLeaseTerms(tenant, startDate, durationMonths, rentDueDay) ==
    /\ tenant # ZERO
    /\ startDate >= now
    /\ durationMonths \in 1..MaxDurationMonths
    /\ rentDueDay \in 1..MaxRentDueDay

\* C34: createLease succeeds only with a non-zero tenant, startDate >= now,
\* 1 <= durationMonths <= 36 and 1 <= rentDueDay <= 28, and startDate = now, 36
\* months and day 28 are accepted on their own account; every created lease has
\* endDate = startDate + durationMonths * 30 days for such a duration, endDate >
\* startDate and a rentDueDay in 1..28; and no step that changes the leases, the
\* lease counter, the tenants' lists, the balances or the allowances is a
\* createLease with a violating argument.
C34_LeaseTerms ==
    /\ [](\A c \in Callers, p \in PropertyIds, t \in TenantChoices, o \in StartOffsets :
             LET plain == createLeaseOutcome(c, p, t, now + o, 1, 1) = "ok" IN
             \A m \in DurationEdges, d \in DueDayEdges :
                 LET accepted == createLeaseOutcome(c, p, t, now + o, m, d) = "ok" IN
                 /\ accepted => ValidLeaseTerms(t, now + o, m, d)
                 /\ (ValidLeaseTerms(t, now + o, m, d) /\ plain) => accepted)
    /\ [](\A l \in LeaseIds :
             LeaseCreated(l) =>
                 /\ \E m \in 1..MaxDurationMonths :
                        leases[l].endDate
                            = leases[l].startDate + m * (DaysPerMonth * Day)
                 /\ leases[l].endDate > leases[l].startDate
                 /\ leases[l].rentDueDay \in 1..MaxRentDueDay
                 /\ leases[l].tenant # ZERO)
    /\ [][\/ UNCHANGED <<leases, leaseCounter, tenantLeases, balances, allowances>>
          \/ \A c \in Callers, p \in PropertyIds, a \in LeaseArgs :
                 ~(/\ ~ValidLeaseTerms(a.tenant, now + a.offset, a.months, a.due)
                   /\ createLease(c, p, a.tenant, now + a.offset, a.months, a.due))]_vars

\* a lease was just created with startDate = now; in the same state a call with
\* 37 months, one with day 29 and one starting a second ago would each pass the
\* owner and property checks and be refused
C34_Witness ==
    \E l \in LeaseIds :
        /\ LeaseCreated(l)
        /\ last.op = "createLease" /\ last.id = l
        /\ leases[l].startDate = now
        /\ leases[l].endDate = now + DaysPerMonth * Day
        /\ LET p == leases[l].propertyId
               c == properties[p].owner
           IN
           /\ createLeaseOutcome(c, p, "tenant", now, MaxDurationMonths + 1, 1)
                  = "Duration must be 1-36 months"
           /\ createLeaseOutcome(c, p, "tenant", now, 1, MaxRentDueDay + 1)
                  = "Rent due day must be 1-28"
           /\ createLeaseOutcome(c, p, "tenant", now - 1, 1, 1)
                  = "Start date must be in future"
           /\ createLeaseOutcome(c, p, ZERO, now, 1, 1) = "Invalid tenant address"

\* The sum of f over the ids 0..n
RECURSIVE Total(_, _)
Total(f, n) == IF n < 0 THEN 0 ELSE f[n] + Total(f, n - 1)

DepositsHeld == Total([l \in LeaseIds |-> leases[l].securityDepositHeld], MaxLeases)
EscrowHeld == Total(maintenanceFunds, MaxProperties)

C36_PayoutsAreRequested ==
    \A r \in RequestIds :
        r >= maintenanceCounter =>
            /\ paidCount[r] = 0
            /\ \A c \in Callers : payMaintenanceContractorOutcome(c, r) # "ok"

\* C37: for every created request, the status is Pending exactly when
\* approvedAmount is 0 and the contractor is unset, and a request that is
\* Approved or Completed has approvedAmount > 0 and a non-zero contractor.
C37_ApprovalFields ==
    \A r \in RequestIds :
        r < maintenanceCounter =>
            LET request == maintenanceRequests[r] IN
            /\ request.status = "Pending"
                   <=> (request.approvedAmount = 0 /\ request.contractor = ZERO)
            /\ request.status \in {"Approved", "Completed"} =>
                   (request.approvedAmount > 0 /\ request.contractor # ZERO)

\* a created request has just been approved at the limit
C37_Witness ==
    \E r \in RequestIds :
        /\ r < maintenanceCounter
        /\ last.op = "approveMaintenance" /\ last.id = r
        /\ maintenanceRequests[r].status = "Approved"
        /\ maintenanceRequests[r].approvedAmount = AutoApprovalLimit
        /\ maintenanceRequests[r].contractor = "contractor"

\* Settling deposits while the contract is paused, properties are deactivated
\* and agents come and go
SettleStep ==
    \/ \E p \in PropertyIds : createLease("landlord", p, "tenant", now, 1, 1)
    \/ \E p \in PropertyIds : deactivateProperty("landlord", p)
    \/ pause("deployer")
    \/ unpause("deployer")
    \/ \E b \in BOOLEAN : setAIAgent("deployer", "agent", b)
    \/ Tick(Genesis + DaysPerMonth * Day + 1)
    \/ \E c \in Callers, l \in LeaseIds, d \in DeductionChoices :
          LeaseCreated(l) /\ returnSecurityDeposit(c, l, d)

NextSettle == RegisterStep \/ SettleStep

SpecSettle == Init /\ [][NextSettle]_vars

\* C38: a deposit can always be settled after the term.  In every state, for
\* every lease with securityDepositHeld > 0 and now > endDate, a
\* returnSecurityDeposit by the property's owner succeeds for every deduction
\* from 0 to the amount held, whether or not the contract is paused, the
\* property is active or an agent is authorized.
C38_SettlementAlwaysPossible ==
    \A l \in LeaseIds :
        (leases[l].securityDepositHeld > 0 /\ now > leases[l].endDate) =>
            \A d \in 0..leases[l].securityDepositHeld :
                returnSecurityDepositOutcome(LeaseOwner(l), l, d) = "ok"

\* the owner has just settled a lease, with a deduction, on a deactivated
\* property while the contract was paused and no agent was authorized
C38_Witness ==
    \E l \in LeaseIds :
        /\ LeaseCreated(l)
        /\ last.op = "returnSecurityDeposit" /\ last.id = l
        /\ Len(last.transfers) = 2
        /\ leases[l].securityDepositHeld = 0
        /\ paused
        /\ ~properties[leases[l].propertyId].isActive
        /\ \A a \in Accounts : ~authorizedAIAgents[a]

\* A tenancy from before its start to after its settlement, and the requests
\* made along the way
ClockStep ==
    \/ \E p \in PropertyIds, o \in {0, 1} :
          createLease("landlord", p, "tenant", now + o, 1, 1)
    \/ \E t \in TimePoints : Tick(t)
    \/ \E l \in LeaseIds : LeaseCreated(l) /\ payRent("tenant", l)
    \/ \E l \in LeaseIds, d \in DeductionChoices :
          LeaseCreated(l) /\ returnSecurityDeposit("landlord", l, d)
    \/ \E c \in Callers, p \in PropertyIds : requestMaintenance(c, p, 1, 1)

NextClock == RegisterStep \/ ClockStep

SpecClock == Init /\ [][NextClock]_vars

\* the leases a tenant holds on a property
LeasesOn(t, p) ==
    {l \in LeaseIds : LeaseCreated(l) /\ leases[l].tenant = t /\ leases[l].propertyId = p}

\* C39: a tenant's right to raise maintenance follows the lease status, not the
\* clock.  On an active property, the tenant of an Active lease is accepted by
\* requestMaintenance whether now is before the lease's startDate, inside the
\* term or after its endDate; and a tenant, not the owner, all of whose leases on
\* the property are Completed is refused.
C39_RightFollowsStatus ==
    \A p \in PropertyIds, t \in Accounts :
        /\ (/\ properties[p].isActive
            /\ \E l \in LeasesOn(t, p) : leases[l].status = "Active") =>
               requestMaintenanceOutcome(t, p, 1, 1) = "ok"
        /\ (/\ LeasesOn(t, p) # {}
            /\ \A l \in LeasesOn(t, p) : leases[l].status = "Completed"
            /\ t # properties[p].owner) =>
               requestMaintenanceOutcome(t, p, 1, 1) # "ok"

\* the tenant of a lease that ended and was not settled has just requested
\* maintenance
C39_Witness ==
    \E l \in LeaseIds, r \in RequestIds :
        /\ LeaseCreated(l)
        /\ leases[l].status = "Active"
        /\ now > leases[l].endDate
        /\ last.op = "requestMaintenance" /\ last.id = r
        /\ maintenanceRequests[r].requestedBy = leases[l].tenant
        /\ maintenanceRequests[r].propertyId = leases[l].propertyId

====
